---- MODULE Spec2Model ----
(***************************************************************************)
(* Read dispensing (pat.cpp: PatternComposer, CFilePatternSource,          *)
(* VectorPatternSource, FastaContinuousPatternSource) and ordered output   *)
(* (outq.h: OutputQueue) of HISAT2.                                        *)
(*                                                                         *)
(* Specifications:                                                         *)
(*   Spec   NThreads worker threads calling nextBatch on the composer that  *)
(*          setupPatternComposer builds from the input lists               *)
(*   SpecLive  Spec over literal (-c) input, with fair scheduling           *)
(*   SpecO  Spec over file lists of which some files cannot be opened      *)
(*   SpecR  NThreads worker threads calling nextReadPair, which takes      *)
(*          batches from the composer and parses their records             *)
(*   SpecQ  the OutputQueue driven by NThreads worker threads              *)
(*   SpecQN SpecQ for a queue constructed with reorder off                 *)
(*   SpecW  the OutputQueue driven by workers that take batches of         *)
(*          consecutive read ids and report them one at a time             *)
(*   SpecL  Spec with the mutex of each source followed                    *)
(*   SpecS  threads that finalize parsed reads (genRandSeed)               *)
(*   SpecFq light parsing and parsing of the bytes of a FASTQ file         *)
(*   SpecFc light parsing and parsing of the bytes of a FASTA file read    *)
(*          as overlapping windows (FASTA-continuous)                      *)
(*   SpecLn light parsing of the bytes of a Tabbed or Raw file             *)
(*   SpecFm light parsing of a FASTQ file in blocks, with interleaved      *)
(*          mates, and of files that end inside a record                   *)
(*   SpecC  Spec over inputs that mix interleaved, paired and unpaired     *)
(*          lists                                                          *)
(*   SpecD  worker threads that take batches and report reads, with the    *)
(*          mutex of each source, of the composer and of the OutputQueue   *)
(*   SpecP  Spec over paired files of equal record counts, with and        *)
(*          without a last newline                                         *)
(***************************************************************************)
EXTENDS Integers, Sequences, FiniteSets, TLC

VARIABLES
    oq,        \* the OutputQueue object (cur_, lines_, started_, finished_, counters, output)
    oq_first,  \* the rdid the OutputQueue was constructed with
    oq_st,     \* history: id -> UNSEEN / STARTED / COMMITTED / FLUSHED
    oq_by,     \* history: id -> thread that called beginRead for it (0: none)
    oq_reg,    \* history: id -> record handed to finishRead ("" : none)
    oq_op      \* history: the last call made on the queue

qvars == <<oq, oq_first, oq_st, oq_by, oq_reg, oq_op>>

VARIABLES
    inp,       \* the input arguments: format, si, m1, m2, m12, fileParallel, skip
    max_buf_,  \* PerThreadReadBuf::max_buf_, the batch capacity
    solo,      \* TRUE: SoloPatternComposer (src_ is srca_), FALSE: DualPatternComposer
    srca_,     \* the composer's list of sources (Solo: src_)
    srcb_,     \* the composer's list of mate-2 sources, NULL for an unpaired slot
    cur_,      \* the composer's shared cursor
    mutex_m,   \* the composer's lock: 0 when free, else the thread holding it
    th,        \* per thread: position in nextBatch, local cur, the PerThreadReadBuf
    fatal,     \* "none", or the fatal error raised ("-1" / "-2")
    ndisp,     \* history: record -> number of times it was returned in a batch
    emitted    \* history: the (mate-1 record, mate-2 record, read id) returned so far

cvars == <<inp, max_buf_, solo, srca_, srcb_, cur_, mutex_m, th, fatal, ndisp, emitted>>

VARIABLES
    ps,        \* per thread: the PatternSourcePerThread (buf_, last_batch_, last_batch_size_)
               \* and what its last nextReadPair call parsed and returned
    kinds,     \* input: record -> "ok", "noname" (ok, the name is empty), "trunc" (it ends
               \* prematurely) or "qual" (bad qualities)
    thrown     \* TRUE once an exception has left parse

rvars == <<ps, kinds, thrown>>

VARIABLES
    wk,        \* per worker: the batch of read ids it took (lo, n), how many of them
               \* it has finished (i), and whether it is between beginRead and finishRead
    wk_cnt     \* the next read id the dispenser hands out (readCnt_)

wvars == <<wk, wk_cnt>>

VARIABLES
    smx        \* source id -> the thread holding that source's own mutex (0: free)

lvars == <<smx>>

VARIABLES
    pin,       \* input of a light-parse run: format, the bytes of the file, options
    pst,       \* the reader: position in the file, state kept between calls
    pout       \* the raw buffers filled so far, batch after batch

pvars == <<pin, pst, pout>>

vars == <<qvars, cvars, rvars, wvars, lvars, pvars>>

----------------------------------------------------------------------------
(* Bounds *)

\* number of worker threads
NThreads == 2
\* number of read ids the workers report on
NumIds == 4
\* largest rdid the queue is constructed with
MaxFirstId == 1
\* perThreadBufSize given to the constructor
PerThreadBufSize == 2
\* largest batch capacity (PerThreadReadBuf::max_buf_)
MaxBuf == 3
\* number of batches the dispenser hands to the workers of the queue
NumBatches == 3
\* largest number of bases in a read handed to finalize
MaxReadLen == 2
\* largest number of records in the files of one input list
MaxRecs == 3
\* largest --skip
MaxSkip == 2
\* window length (sampleLen) and stride (sampleFreq) of FASTA-continuous input
SampleLen == 2
SampleFreq == 2

Threads == 1..NThreads

\* formatted records (byte strings) a worker may hand to finishRead
Recs == {"x", "y"}

----------------------------------------------------------------------------
(* Sequence helpers *)

\* s without its first n elements (EList::erase(0, n))
EraseFront(s, n) == SubSeq(s, n + 1, Len(s))

\* s resized to n elements, new elements set to v (EList::resize + fill loop)
ResizeTo(s, n, v) == [i \in 1..n |-> IF i <= Len(s) THEN s[i] ELSE v]

Max2(a, b) == IF a >= b THEN a ELSE b


----------------------------------------------------------------------------
(* Input sources: CFilePatternSource and its formats, VectorPatternSource *)

NULL == "NULL"

\* no record: the mate-2 side of an unpaired read
NoRec == [src |-> <<"none", 0>>, file |-> 0, idx |-> 0]

Min2(a, b) == IF a <= b THEN a ELSE b

\* the file a CFilePatternSource has open (fp_)
CurFile(s) == s.infiles_[s.fp_ + 1]

\* the record stored at position idx (from 1) of file number file (from 0) of source src
Rec(s, idx) == [src |-> s.id, file |-> s.fp_, idx |-> idx]

\* FastaPatternSource::nextBatchFromFile, by records: up to B records, done when
\* the end of file was met while reading the last of them
FastaNextBatchFromFile(s, B) ==
    IF s.first_ /\ CurFile(s).n = 0
    THEN [s |-> s, done |-> TRUE, n |-> 0, recs |-> <<>>]
    ELSE LET r == CurFile(s).n - s.pos
             k == Min2(r, B)
         IN [s    |-> [s EXCEPT !.first_ = FALSE, !.pos = @ + k],
             done |-> (k = r),
             n    |-> k,
             recs |-> [i \in 1..k |-> Rec(s, s.pos + i)]]

\* FastqPatternSource::nextBatchFromFile (reads_per_block = 0, not interleaved),
\* by records: when the file ends with a newline the end of file is met only
\* by the read that follows the last record
FastqNextBatchFromFile(s, B) ==
    IF s.first_ /\ CurFile(s).n = 0
    THEN [s |-> s, done |-> TRUE, n |-> 0, recs |-> <<>>]
    ELSE LET r == CurFile(s).n - s.pos
             k == Min2(r, B)
         IN [s    |-> [s EXCEPT !.first_ = FALSE, !.pos = @ + k],
             done |-> IF CurFile(s).nl THEN r < B ELSE k = r,
             n    |-> k,
             recs |-> [i \in 1..k |-> Rec(s, s.pos + i)]]

\* resetForNextFile, per format
resetForNextFile(s) ==
    IF s.format = "FASTA_CONT"
    THEN [s EXCEPT !.eat_ = SampleLen - 1, !.beginning_ = TRUE,
                   !.subReadCnt_ = s.readCnt_]
    ELSE [s EXCEPT !.first_ = TRUE]

\* FastaContinuousPatternSource::nextBatchFromFile over a file that is one
\* header line followed by CurFile(s).n valid bases; pos counts the bases read
RECURSIVE FastaContLoop(_, _, _)
FastaContLoop(s, recs, B) ==
    IF Len(recs) >= B THEN [s |-> s, done |-> FALSE, n |-> Len(recs), recs |-> recs]
    ELSE IF s.pos >= CurFile(s).n
    THEN [s |-> s, done |-> TRUE, n |-> Len(recs), recs |-> recs]
    ELSE LET s0 == IF s.pos = 0 THEN resetForNextFile(s) ELSE s
             s1 == [s0 EXCEPT !.pos = @ + 1]
         IN IF s1.eat_ > 0
            THEN FastaContLoop(
                     [s1 EXCEPT !.eat_ = @ - 1,
                                !.readCnt_ = IF s1.beginning_ THEN @ ELSE @ + 1],
                     recs, B)
            ELSE FastaContLoop(
                     [s1 EXCEPT !.eat_ = SampleFreq - 1,
                                !.readCnt_ = @ + 1,
                                !.beginning_ = FALSE],
                     Append(recs, Rec(s1, s1.pos)), B)

FastaContNextBatchFromFile(s, B) == FastaContLoop(s, <<>>, B)

\* the virtual nextBatchFromFile
nextBatchFromFile(s, B) ==
    CASE s.format = "FASTA"      -> FastaNextBatchFromFile(s, B)
      [] s.format = "FASTQ"      -> FastqNextBatchFromFile(s, B)
      [] s.format = "FASTA_CONT" -> FastaContNextBatchFromFile(s, B)

\* a mutant of open: the open file is rewound instead of the next one opened
openRewinds(s) == [s EXCEPT !.pos = 0]

\* CFilePatternSource::open: the first file from filecur_ on that can be opened
\* becomes the open one, read from its start; files that cannot be opened are
\* skipped with a warning; exit(1) when none is left
RECURSIVE open(_)
open(s) ==
    IF s.filecur_ < Len(s.infiles_)
    THEN IF s.infiles_[s.filecur_ + 1].ok
         THEN [s EXCEPT !.fp_ = s.filecur_, !.pos = 0]
         ELSE open([s EXCEPT !.filecur_ = @ + 1])
    ELSE [s EXCEPT !.exit_ = TRUE]

\* the file formats read by a CFilePatternSource
FileFormats == {"FASTA", "FASTQ", "FASTA_CONT"}

\* CFilePatternSource / VectorPatternSource / FastaContinuousPatternSource
\* constructors; a CFilePatternSource opens its first file: open(); filecur_++
NewSource(id, format, files, skip) ==
    LET s0 == [id          |-> id,
               format      |-> format,
               infiles_    |-> files,
               filecur_    |-> 0,
               fp_         |-> 0,
               pos         |-> 0,
               first_      |-> TRUE,
               readCnt_    |-> 0,
               cur_        |-> skip,
               eat_        |-> SampleLen - 1,
               beginning_  |-> TRUE,
               subReadCnt_ |-> 0,
               exit_       |-> FALSE]
    IN IF format \in FileFormats
       THEN [open(s0) EXCEPT !.filecur_ = @ + 1]
       ELSE [s0 EXCEPT !.filecur_ = 1]

\* a loop that returns at the end of every file, the next file opened
NextFileLoopReturnsAtFileEnd(s, B) ==
    LET ret == nextBatchFromFile(s, B)
    IN IF ret.done /\ ret.s.filecur_ < Len(ret.s.infiles_)
       THEN LET s1 == open(ret.s)
                s2 == [resetForNextFile(s1) EXCEPT !.filecur_ = @ + 1]
            IN IF s1.exit_ THEN [s |-> s1, done |-> TRUE, n |-> 0, recs |-> <<>>]
               ELSE [ret EXCEPT !.s = s2]
       ELSE ret

\* CFilePatternSource::nextBatchImpl after pt.setReadId(readCnt_): the loop that
\* moves on to the next file, then readCnt_ += nread
RECURSIVE NextFileLoop(_, _)
NextFileLoop(s, B) ==
    LET ret == nextBatchFromFile(s, B)
    IN IF ret.done /\ ret.s.filecur_ < Len(ret.s.infiles_)
       THEN LET s1 == open(ret.s)
                s2 == [resetForNextFile(s1) EXCEPT !.filecur_ = @ + 1]
            IN IF s1.exit_ THEN [s |-> s1, done |-> TRUE, n |-> 0, recs |-> <<>>]
               ELSE IF ret.n = 0 THEN NextFileLoop(s2, B)
               ELSE [ret EXCEPT !.s = s2]
       ELSE ret

CFileNextBatchImpl(s, B) ==
    LET ret == NextFileLoop(s, B)
    IN [s    |-> [ret.s EXCEPT !.readCnt_ = @ + ret.n],
        done |-> ret.done,
        n    |-> ret.n,
        recs |-> ret.recs,
        rdid |-> s.readCnt_]

\* VectorPatternSource::nextBatchImpl
VectorNextBatchImpl(s, B) ==
    LET size  == Len(s.infiles_)
        readi == IF s.cur_ < size THEN Min2(B, size - s.cur_) ELSE 0
    IN [s    |-> [s EXCEPT !.cur_ = @ + readi, !.readCnt_ = @ + readi],
        done |-> (s.cur_ + readi = size),
        n    |-> readi,
        recs |-> [i \in 1..readi |-> [src |-> s.id, file |-> 0, idx |-> s.cur_ + i]],
        rdid |-> s.cur_]

\* PatternSource::nextBatch(pt, batch_a, lock): the body run under the lock
nextBatch(s, B) ==
    IF s.format = "CMDLINE" THEN VectorNextBatchImpl(s, B) ELSE CFileNextBatchImpl(s, B)

\* the NULL entry of srcb_ that marks an unpaired slot
NullSource == NewSource(<<"b", 0>>, NULL, <<>>, 0)

\* PerThreadReadBuf::rdid: the id of element i (from 1) of a batch whose base is rdid
rdidOf(rdid, i) == rdid + i - 1


----------------------------------------------------------------------------
(* PatternComposer: setup, SoloPatternComposer, DualPatternComposer *)

\* the lists of file names handed to the sources of one input list: the whole
\* list to one source, or one file to each source under fileParallel
SourceLists(list, fileParallel) ==
    IF fileParallel THEN [i \in 1..Len(list) |-> <<list[i]>>]
    ELSE IF Len(list) > 0 THEN <<list>> ELSE <<>>

\* a setup that pushes nothing on b for an unpaired source
setupPatternComposerWithoutNull(in) ==
    LET ab == SourceLists(in.m12, in.fileParallel)
        a1 == SourceLists(in.m1, in.fileParallel)
        b1 == SourceLists(in.m2, in.fileParallel)
        s1 == SourceLists(in.si, in.fileParallel)
        a  == a1 \o s1
    IN IF Len(in.m12) > 0
       THEN [solo  |-> TRUE,
             srca_ |-> [i \in 1..Len(ab) |->
                          NewSource(<<"ab", i>>, in.format, ab[i], in.skip)],
             srcb_ |-> [i \in 1..Len(ab) |-> NullSource]]
       ELSE [solo  |-> FALSE,
             srca_ |-> [i \in 1..Len(a) |->
                          NewSource(<<"a", i>>, in.format, a[i], in.skip)],
             srcb_ |-> [i \in 1..Len(b1) |->
                          NewSource(<<"b", i>>, in.format, b1[i], in.skip)]]

\* PatternComposer::setupPatternComposer: the lists ab, a, b and the composer;
\* a holds the mate-1 sources and then the unpaired sources, b the mate-2
\* sources and then a NULL for every unpaired source; the Solo composer
\* takes ab (a and b are deleted), the Dual composer takes a and b
setupPatternComposer(in) ==
    LET ab == SourceLists(in.m12, in.fileParallel)
        a1 == SourceLists(in.m1, in.fileParallel)
        b1 == SourceLists(in.m2, in.fileParallel)
        s1 == SourceLists(in.si, in.fileParallel)
        a  == a1 \o s1
    IN IF Len(in.m12) > 0
       THEN [solo  |-> TRUE,
             srca_ |-> [i \in 1..Len(ab) |->
                          NewSource(<<"ab", i>>, in.format, ab[i], in.skip)],
             srcb_ |-> [i \in 1..Len(ab) |-> NullSource]]
       ELSE [solo  |-> FALSE,
             srca_ |-> [i \in 1..Len(a) |->
                          NewSource(<<"a", i>>, in.format, a[i], in.skip)],
             srcb_ |-> [i \in 1..(Len(b1) + Len(s1)) |->
                          IF i <= Len(b1)
                          THEN NewSource(<<"b", i>>, in.format, b1[i], in.skip)
                          ELSE NullSource]]

\* the sources of the composer, as a set
Sources == {srca_[i] : i \in 1..Len(srca_)}
             \cup {srcb_[i] : i \in {j \in 1..Len(srcb_) : srcb_[j] # NullSource}}

\* a thread outside nextBatch, its PerThreadReadBuf reset
IdleThread == [pc |-> "idle", cur |-> 0, rdid |-> 0, bufa |-> <<>>,
               resa |-> [done |-> FALSE, n |-> 0],
               resb |-> [done |-> FALSE, n |-> 0], spin |-> FALSE]

\* a thread that nextBatch returned a batch to (return res): outside nextBatch,
\* with the slot it read, the result and the read id set in its PerThreadReadBuf
Returned(cur, res) ==
    [IdleThread EXCEPT !.cur = cur, !.rdid = res.rdid,
                       !.resa = [done |-> res.done, n |-> res.n]]

\* a mutant of CompareCounts: the two error branches name the wrong input
CompareCountsSwapped(na, nb) ==
    IF na < nb THEN "-2"
    ELSE IF na = 0 /\ nb = 0 THEN "adv"
    ELSE IF nb < na THEN "-1"
    ELSE "ret"

\* a mutant of CompareCounts: a short mate-2 batch is not checked
CompareCountsUnchecked(na, nb) ==
    IF na < nb THEN "-1"
    ELSE IF na = 0 /\ nb = 0 THEN "adv"
    ELSE "ret"

\* DualPatternComposer::nextBatch, paired slot, after the locked section: what
\* the counts resa.second = na and resb.second = nb lead to
CompareCounts(na, nb) ==
    IF na < nb THEN "-1"
    ELSE IF na = 0 /\ nb = 0 THEN "adv"
    ELSE IF nb < na THEN "-2"
    ELSE "ret"

\* a mutant of CanLock: the lock is taken whether or not it is held
CanLockAlways(m) == TRUE

\* ThreadSafe ts(mutex_m): the lock can be taken when no thread holds it
CanLock(m) == m = 0

\* history of a batch of n reads returned to a worker
Dispense(bufa, bufb, rdid, n) ==
    LET got == {bufa[i] : i \in 1..n} \cup {bufb[i] : i \in 1..Min2(n, Len(bufb))}
        times(r) == Cardinality({i \in 1..n : bufa[i] = r}) +
                    Cardinality({i \in 1..Min2(n, Len(bufb)) : bufb[i] = r})
    IN /\ ndisp' = [r \in (DOMAIN ndisp) \cup got |->
                       (IF r \in DOMAIN ndisp THEN ndisp[r] ELSE 0) + times(r)]
       /\ emitted' = emitted \cup
                       {[a  |-> bufa[i],
                         b  |-> IF i <= Len(bufb) THEN bufb[i] ELSE NoRec,
                         id |-> rdidOf(rdid, i)] : i \in 1..n}

\* exit(1) in open(), reached from nextBatch by thread t: the process ends
Exits(t) ==
    /\ fatal' = "novalid"
    /\ th' = [th EXCEPT ![t].pc = "exited"]
    /\ UNCHANGED <<ndisp, emitted>>

\* nextBatch is entered: size_t cur = cur_
Call(t) ==
    /\ fatal = "none"
    /\ th[t].pc = "idle"
    /\ th' = [th EXCEPT ![t] = [IdleThread EXCEPT !.pc = "top", !.cur = cur_]]
    /\ UNCHANGED <<inp, max_buf_, solo, srca_, srcb_, cur_, mutex_m, fatal, ndisp, emitted>>

\* the while loop ends: return make_pair(true, 0)
Exhausted(t) ==
    /\ fatal = "none"
    /\ th[t].pc = "top"
    /\ th[t].cur >= Len(srca_)
    /\ th' = [th EXCEPT ![t].pc = "done"]
    /\ UNCHANGED <<inp, max_buf_, solo, srca_, srcb_, cur_, mutex_m, fatal, ndisp, emitted>>

\* SoloPatternComposer::nextBatch, one turn of the do-while loop and what follows it
SoloRead(t) ==
    /\ fatal = "none"
    /\ solo
    /\ th[t].pc = "top"
    /\ th[t].cur < Len(srca_)
    /\ LET c   == th[t].cur + 1
           res == nextBatch(srca_[c], max_buf_)
       IN /\ srca_' = [srca_ EXCEPT ![c] = res.s]
          /\ IF res.s.exit_
             THEN Exits(t)
             ELSE IF ~res.done /\ res.n = 0
             THEN /\ th' = [th EXCEPT ![t].spin = ~@]
                  /\ UNCHANGED <<fatal, ndisp, emitted>>
             ELSE IF res.n = 0
             THEN /\ th' = [th EXCEPT ![t].pc = "adv"]
                  /\ UNCHANGED <<fatal, ndisp, emitted>>
             ELSE /\ th' = [th EXCEPT ![t] = Returned(th[t].cur, res)]
                  /\ Dispense(res.recs, <<>>, res.rdid, res.n)
                  /\ UNCHANGED fatal
    /\ UNCHANGED <<inp, max_buf_, solo, srcb_, cur_, mutex_m>>

\* DualPatternComposer::nextBatch, unpaired slot
UnpairedRead(t) ==
    /\ fatal = "none"
    /\ ~solo
    /\ th[t].pc = "top"
    /\ th[t].cur < Len(srca_)
    /\ srcb_[th[t].cur + 1] = NullSource
    /\ LET c   == th[t].cur + 1
           res == nextBatch(srca_[c], max_buf_)
       IN /\ srca_' = [srca_ EXCEPT ![c] = res.s]
          /\ IF res.s.exit_
             THEN Exits(t)
             ELSE IF ~res.done /\ res.n = 0
             THEN /\ th' = [th EXCEPT ![t].pc = "adv"]
                  /\ UNCHANGED <<fatal, ndisp, emitted>>
             ELSE IF res.n = 0
             THEN /\ th' = [th EXCEPT ![t].pc = "done"]
                  /\ UNCHANGED <<fatal, ndisp, emitted>>
             ELSE /\ th' = [th EXCEPT ![t] = Returned(th[t].cur, res)]
                  /\ Dispense(res.recs, <<>>, res.rdid, res.n)
                  /\ UNCHANGED fatal
    /\ UNCHANGED <<inp, max_buf_, solo, srcb_, cur_, mutex_m>>

\* DualPatternComposer::nextBatch, paired slot: ThreadSafe ts(mutex_m)
PairedLock(t) ==
    /\ fatal = "none"
    /\ ~solo
    /\ th[t].pc = "top"
    /\ th[t].cur < Len(srca_)
    /\ srcb_[th[t].cur + 1] # NullSource
    /\ CanLock(mutex_m)
    /\ mutex_m' = t
    /\ th' = [th EXCEPT ![t].pc = "readA"]
    /\ UNCHANGED <<inp, max_buf_, solo, srca_, srcb_, cur_, fatal, ndisp, emitted>>

\* resa = (*srca_)[cur]->nextBatch(pt, true, false)
PairedReadA(t) ==
    /\ fatal = "none"
    /\ th[t].pc = "readA"
    /\ LET c   == th[t].cur + 1
           res == nextBatch(srca_[c], max_buf_)
       IN /\ srca_' = [srca_ EXCEPT ![c] = res.s]
          /\ IF res.s.exit_
             THEN Exits(t)
             ELSE /\ th' = [th EXCEPT ![t].pc = "readB", ![t].rdid = res.rdid,
                                      ![t].bufa = res.recs,
                                      ![t].resa = [done |-> res.done, n |-> res.n]]
                  /\ UNCHANGED <<fatal, ndisp, emitted>>
    /\ UNCHANGED <<inp, max_buf_, solo, srcb_, cur_, mutex_m>>

\* resb = (*srcb_)[cur]->nextBatch(pt, false, false), the lock is released, and
\* the two counts are compared
PairedReadB(t) ==
    /\ fatal = "none"
    /\ th[t].pc = "readB"
    /\ LET c    == th[t].cur + 1
           res  == nextBatch(srcb_[c], max_buf_)
           resa == th[t].resa
       IN /\ srcb_' = [srcb_ EXCEPT ![c] = res.s]
          /\ mutex_m' = IF mutex_m = t THEN 0 ELSE mutex_m
          /\ LET what == CompareCounts(resa.n, res.n)
                 me   == [th[t] EXCEPT !.resb = [done |-> res.done, n |-> res.n],
                                       !.rdid = res.rdid]
             IN CASE res.s.exit_ -> Exits(t)
                  [] ~res.s.exit_ /\ what \in {"-1", "-2"} ->
                       /\ fatal' = what
                       /\ th' = [th EXCEPT ![t] = [me EXCEPT !.pc = "threw"]]
                       /\ UNCHANGED <<ndisp, emitted>>
                  [] ~res.s.exit_ /\ what = "adv" ->
                       /\ th' = [th EXCEPT ![t] = [me EXCEPT !.pc = "adv"]]
                       /\ UNCHANGED <<fatal, ndisp, emitted>>
                  [] ~res.s.exit_ /\ what = "ret" ->
                       /\ th' = [th EXCEPT ![t] = [me EXCEPT !.pc = "idle"]]
                       /\ Dispense(th[t].bufa, res.recs, res.rdid, resa.n)
                       /\ UNCHANGED fatal
    /\ UNCHANGED <<inp, max_buf_, solo, srca_, cur_>>

\* an advance that does not compare cur with cur_: cur_++; cur = cur_
AdvanceWithoutCompare(t) ==
    /\ fatal = "none"
    /\ th[t].pc = "adv"
    /\ CanLock(mutex_m)
    /\ cur_' = cur_ + 1
    /\ th' = [th EXCEPT ![t].pc = "top", ![t].cur = cur_ + 1]
    /\ UNCHANGED <<inp, max_buf_, solo, srca_, srcb_, mutex_m, fatal, ndisp, emitted>>

\* ThreadSafe ts(mutex_m); if(cur + 1 > cur_) cur_++; cur = cur_; continue
Advance(t) ==
    /\ fatal = "none"
    /\ th[t].pc = "adv"
    /\ CanLock(mutex_m)
    /\ LET c2 == IF th[t].cur + 1 > cur_ THEN cur_ + 1 ELSE cur_
       IN /\ cur_' = c2
          /\ th' = [th EXCEPT ![t].pc = "top", ![t].cur = c2]
    /\ UNCHANGED <<inp, max_buf_, solo, srca_, srcb_, mutex_m, fatal, ndisp, emitted>>

ThreadStep(t) ==
    \/ Call(t)
    \/ Exhausted(t)
    \/ SoloRead(t)
    \/ UnpairedRead(t)
    \/ PairedLock(t)
    \/ PairedReadA(t)
    \/ PairedReadB(t)
    \/ Advance(t)

----------------------------------------------------------------------------
(* OutputQueue *)

\* the read ids of the run
Ids == DOMAIN oq_st

\* a mutant of the constructor: cur_ starts at 0 whatever rdid is given
OutputQueueInitIgnoresRdid(reorder, rdid) ==
    [cur_               |-> 0,
     reorder_           |-> reorder,
     lines_             |-> <<>>,
     started_           |-> <<>>,
     finished_          |-> <<>>,
     perThreadCounter_  |-> [t \in Threads |-> 0],
     perThreadStarted_  |-> [t \in Threads |-> 0],
     perThreadFinished_ |-> [t \in Threads |-> 0],
     perThreadFlushed_  |-> [t \in Threads |-> 0],
     ofh_               |-> <<>>]

\* a mutant of the constructor: the queue reorders whatever reorder is given
OutputQueueInitAlwaysReorders(reorder, rdid) ==
    [cur_               |-> rdid,
     reorder_           |-> TRUE,
     lines_             |-> <<>>,
     started_           |-> <<>>,
     finished_          |-> <<>>,
     perThreadCounter_  |-> [t \in Threads |-> 0],
     perThreadStarted_  |-> [t \in Threads |-> 0],
     perThreadFinished_ |-> [t \in Threads |-> 0],
     perThreadFlushed_  |-> [t \in Threads |-> 0],
     ofh_               |-> <<>>]

\* OutputQueue::OutputQueue: cur_(rdid), reorder_(reorder), empty lists, zeroed
\* per-thread counters
OutputQueueInit(reorder, rdid) ==
    [cur_               |-> rdid,
     reorder_           |-> reorder,
     lines_             |-> <<>>,
     started_           |-> <<>>,
     finished_          |-> <<>>,
     perThreadCounter_  |-> [t \in Threads |-> 0],
     perThreadStarted_  |-> [t \in Threads |-> 0],
     perThreadFinished_ |-> [t \in Threads |-> 0],
     perThreadFlushed_  |-> [t \in Threads |-> 0],
     ofh_               |-> <<>>]

\* OutputQueue::size
size(q) == Len(q.lines_)

\* OutputQueue::numFlushed
numFlushed(q) ==
    LET RECURSIVE Sum(_)
        Sum(i) == IF i > NThreads THEN 0 ELSE q.perThreadFlushed_[i] + Sum(i + 1)
    IN Sum(1)

\* number of leading slots that are committed
RECURSIVE CommittedPrefix(_, _)
CommittedPrefix(fin, n) ==
    IF n < Len(fin) /\ fin[n + 1] THEN CommittedPrefix(fin, n + 1) ELSE n

\* a mutant of flushImpl: a forced flush also writes the leading slots that are
\* started and not yet committed
FlushImplForceWritesStarted(q, force, by) ==
    LET nflush == IF force THEN CommittedPrefix(q.started_, 0)
                  ELSE CommittedPrefix(q.finished_, 0)
    IN [q EXCEPT !.ofh_      = @ \o SubSeq(q.lines_, 1, nflush),
                 !.lines_    = EraseFront(@, nflush),
                 !.started_  = EraseFront(@, nflush),
                 !.finished_ = EraseFront(@, nflush),
                 !.cur_      = @ + nflush]

\* a mutant of flushImpl: the slots written are not removed
FlushImplKeepsSlots(q, force, by) ==
    LET nflush == CommittedPrefix(q.finished_, 0)
    IN [q EXCEPT !.ofh_ = @ \o SubSeq(q.lines_, 1, nflush),
                 !.cur_ = @ + nflush]

\* a mutant of flushImpl: a forced flush writes every committed slot, also past a gap
FlushImplForceSkipsGaps(q, force, by) ==
    LET keep == IF force
                THEN {i \in 1..Len(q.lines_) : ~q.finished_[i]}
                ELSE (CommittedPrefix(q.finished_, 0) + 1)..Len(q.lines_)
        RECURSIVE Pick(_, _)
        Pick(s, i) == IF i > Len(s) THEN <<>>
                      ELSE IF (i \in keep) THEN <<s[i]>> \o Pick(s, i + 1)
                      ELSE Pick(s, i + 1)
        RECURSIVE Drop(_, _)
        Drop(s, i) == IF i > Len(s) THEN <<>>
                      ELSE IF (i \notin keep) THEN <<s[i]>> \o Drop(s, i + 1)
                      ELSE Drop(s, i + 1)
        n == Len(q.lines_) - Cardinality(keep)
    IN [q EXCEPT !.ofh_      = @ \o Drop(q.lines_, 1),
                 !.lines_    = Pick(q.lines_, 1),
                 !.started_  = Pick(q.started_, 1),
                 !.finished_ = Pick(q.finished_, 1),
                 !.cur_      = @ + n]

\* OutputQueue::flushImpl: starting at cur_, write every slot that is committed,
\* stop at the first slot that is not; force does not change the rule.
\* With reorder_ off no slot is kept: the records were written as they committed.
\* by[i] is the thread that owns slot i.
flushImpl(q, force, by) ==
    LET nflush == CommittedPrefix(q.finished_, 0)
    IN IF ~q.reorder_ THEN q ELSE
       [q EXCEPT !.ofh_      = @ \o SubSeq(q.lines_, 1, nflush),
                 !.lines_    = EraseFront(@, nflush),
                 !.started_  = EraseFront(@, nflush),
                 !.finished_ = EraseFront(@, nflush),
                 !.cur_      = @ + nflush,
                 !.perThreadFlushed_ =
                     [t \in Threads |->
                         @[t] + Cardinality({i \in 1..nflush : by[i] = t})]]

\* a mutant of beginReadImpl: one slot is appended whatever the id, and marked
BeginReadImplAppends(q, rdid, threadId) ==
    LET need == Len(q.lines_) + 1
    IN [q EXCEPT !.perThreadStarted_[threadId] = @ + 1,
                 !.lines_    = ResizeTo(@, need, ""),
                 !.started_  = [ResizeTo(@, need, FALSE) EXCEPT ![need] = TRUE],
                 !.finished_ = [ResizeTo(@, need, FALSE) EXCEPT ![need] = FALSE]]

\* OutputQueue::beginReadImpl
beginReadImpl(q, rdid, threadId) ==
    LET need == Max2(Len(q.lines_), rdid - q.cur_ + 1)
        i    == rdid - q.cur_ + 1
    IN IF ~q.reorder_ THEN [q EXCEPT !.perThreadStarted_[threadId] = @ + 1] ELSE
       [q EXCEPT !.perThreadStarted_[threadId] = @ + 1,
                 !.lines_    = ResizeTo(@, need, ""),
                 !.started_  = [ResizeTo(@, need, FALSE) EXCEPT ![i] = TRUE],
                 !.finished_ = [ResizeTo(@, need, FALSE) EXCEPT ![i] = FALSE]]

\* OutputQueue::finishReadImpl; flush(false, false) once the thread has
\* accumulated perThreadBufSize_ records. With reorder_ off the record is
\* written as it commits.
finishReadImpl(q, rec, rdid, threadId, by) ==
    LET i  == rdid - q.cur_ + 1
        q1 == [q EXCEPT !.lines_[i]    = rec,
                        !.finished_[i] = TRUE,
                        !.perThreadFinished_[threadId] = @ + 1,
                        !.perThreadCounter_[threadId]  = @ + 1]
    IN IF ~q.reorder_
       THEN [q EXCEPT !.ofh_ = Append(@, rec),
                      !.perThreadFinished_[threadId] = @ + 1,
                      !.perThreadFlushed_[threadId]  = @ + 1]
       ELSE
       IF q1.perThreadCounter_[threadId] >= PerThreadBufSize
       THEN [flushImpl(q1, FALSE, by) EXCEPT !.perThreadCounter_[threadId] = 0]
       ELSE q1

\* owners of the slots of q, by position
SlotOwners(q) == [i \in 1..Len(q.lines_) |-> oq_by[q.cur_ + i - 1]]

\* the composer is not part of the runs of the queue
ComposerUnused ==
    /\ inp = NULL
    /\ max_buf_ = 0
    /\ solo = FALSE
    /\ srca_ = <<>>
    /\ srcb_ = <<>>
    /\ cur_ = 0
    /\ mutex_m = 0
    /\ th = <<>>
    /\ fatal = "none"
    /\ ndisp = <<>>
    /\ emitted = {}

\* the sources' own mutexes are followed only in SpecL
LocksUnused == smx = <<>>

\* light parsing of bytes is followed only in its own runs
ParserUnused ==
    /\ pin = <<>>
    /\ pst = <<>>
    /\ pout = <<>>

\* batches are not part of the runs of SpecQ and SpecQN, nor of the composer's
WorkersUnused ==
    /\ wk = <<>>
    /\ wk_cnt = 0

\* nextReadPair is not part of the runs of the queue, nor of the runs of nextBatch
ReaderUnused ==
    /\ ps = <<>>
    /\ kinds = <<>>
    /\ thrown = FALSE

InitQ ==
    /\ ComposerUnused
    /\ ReaderUnused
    /\ LocksUnused
    /\ oq_first \in 0..MaxFirstId
    /\ oq = OutputQueueInit(TRUE, oq_first)
    /\ oq_st  = [id \in oq_first..(oq_first + NumIds - 1) |-> "UNSEEN"]
    /\ oq_by  = [id \in Ids |-> 0]
    /\ oq_reg = [id \in Ids |-> ""]
    /\ oq_op  = "new"
    /\ WorkersUnused
    /\ ParserUnused

\* ids of the slots that flushing took q to q2 wrote
FlushedIds(q, q2) == q.cur_..(q2.cur_ - 1)

\* OutputQueue::beginRead(rdid, threadId), under mutex_m
BeginRead(t, id) ==
    /\ oq_st[id] = "UNSEEN"
    /\ oq' = beginReadImpl(oq, id, t)
    /\ oq_st' = [oq_st EXCEPT ![id] = "STARTED"]
    /\ oq_by' = [oq_by EXCEPT ![id] = t]
    /\ oq_op' = "beginRead"
    /\ UNCHANGED <<oq_first, oq_reg>>

\* OutputQueue::finishRead(rec, rdid, threadId), under mutex_m
FinishRead(t, id, rec) ==
    /\ oq_st[id] = "STARTED"
    /\ oq_by[id] = t
    /\ LET q2 == finishReadImpl(oq, rec, id, t, SlotOwners(oq))
       IN /\ oq' = q2
          /\ oq_st' = [j \in Ids |->
                          IF j \in FlushedIds(oq, q2) THEN "FLUSHED"
                          ELSE IF j = id
                               THEN IF oq.reorder_ THEN "COMMITTED" ELSE "FLUSHED"
                               ELSE oq_st[j]]
    /\ oq_reg' = [oq_reg EXCEPT ![id] = rec]
    /\ oq_op' = "finishRead"
    /\ UNCHANGED <<oq_first, oq_by>>

\* OutputQueue::flush(force, getLock = true)
Flush(force) ==
    /\ LET q2 == flushImpl(oq, force, SlotOwners(oq))
       IN /\ oq' = q2
          /\ oq_st' = [j \in Ids |->
                          IF j \in FlushedIds(oq, q2) THEN "FLUSHED" ELSE oq_st[j]]
    /\ oq_op' = IF force THEN "flushForce" ELSE "flush"
    /\ UNCHANGED <<oq_first, oq_by, oq_reg>>

NextQ ==
    \/ \E t \in Threads, id \in Ids : BeginRead(t, id) /\ UNCHANGED <<cvars, rvars, wvars, lvars, pvars>>
    \/ \E t \in Threads, id \in Ids, rec \in Recs : FinishRead(t, id, rec) /\ UNCHANGED <<cvars, rvars, wvars, lvars, pvars>>
    \/ \E force \in BOOLEAN : Flush(force) /\ UNCHANGED <<cvars, rvars, wvars, lvars, pvars>>

SpecQ == InitQ /\ [][NextQ]_vars

\* the same threads on a queue constructed with reorder off
InitQN ==
    /\ ComposerUnused
    /\ ReaderUnused
    /\ LocksUnused
    /\ oq_first \in 0..MaxFirstId
    /\ oq = OutputQueueInit(FALSE, oq_first)
    /\ oq_st  = [id \in oq_first..(oq_first + NumIds - 1) |-> "UNSEEN"]
    /\ oq_by  = [id \in Ids |-> 0]
    /\ oq_reg = [id \in Ids |-> ""]
    /\ oq_op  = "new"
    /\ WorkersUnused
    /\ ParserUnused

SpecQN == InitQN /\ [][NextQ]_vars

\* a worker that holds no batch
NoBatch == [lo |-> 0, n |-> 0, i |-> 0, busy |-> FALSE]

\* the workers of a queue with reorder on: the dispenser hands out NumBatches
\* batches of max_buf_ consecutive read ids
InitW ==
    /\ inp = NULL
    /\ max_buf_ \in 1..MaxBuf
    /\ solo = FALSE
    /\ srca_ = <<>>
    /\ srcb_ = <<>>
    /\ cur_ = 0
    /\ mutex_m = 0
    /\ th = <<>>
    /\ fatal = "none"
    /\ ndisp = <<>>
    /\ emitted = {}
    /\ ReaderUnused
    /\ LocksUnused
    /\ oq_first \in 0..MaxFirstId
    /\ oq = OutputQueueInit(TRUE, oq_first)
    /\ oq_st  = [id \in oq_first..(oq_first + NumBatches * max_buf_ - 1) |-> "UNSEEN"]
    /\ oq_by  = [id \in Ids |-> 0]
    /\ oq_reg = [id \in Ids |-> ""]
    /\ oq_op  = "new"
    /\ wk = [t \in Threads |-> NoBatch]
    /\ ParserUnused
    /\ wk_cnt = oq_first

\* the worker's nextReadPair takes a new batch: its read ids are readCnt_ and
\* the max_buf_ - 1 ids after it
TakeBatch(t) ==
    /\ ~wk[t].busy
    /\ wk[t].i = wk[t].n
    /\ wk_cnt + max_buf_ - 1 \in Ids
    /\ wk' = [wk EXCEPT ![t] = [lo |-> wk_cnt, n |-> max_buf_, i |-> 0, busy |-> FALSE]]
    /\ wk_cnt' = wk_cnt + max_buf_
    /\ UNCHANGED qvars

\* OutputQueueMark::OutputQueueMark: beginRead for the next read of the batch
WorkerBegin(t) ==
    /\ ~wk[t].busy
    /\ wk[t].i < wk[t].n
    /\ BeginRead(t, wk[t].lo + wk[t].i)
    /\ wk' = [wk EXCEPT ![t].busy = TRUE]
    /\ UNCHANGED wk_cnt

\* OutputQueueMark::~OutputQueueMark: finishRead for the read begun
WorkerFinish(t) ==
    /\ wk[t].busy
    /\ \E rec \in Recs : FinishRead(t, wk[t].lo + wk[t].i, rec)
    /\ wk' = [wk EXCEPT ![t].busy = FALSE, ![t].i = @ + 1]
    /\ UNCHANGED wk_cnt

\* the final flush(true), once every id is dispensed and every worker is
\* through with its reads
FinalFlush ==
    /\ wk_cnt \notin Ids
    /\ \A t \in Threads : ~wk[t].busy /\ wk[t].i = wk[t].n
    /\ Flush(TRUE)
    /\ UNCHANGED wvars

NextW ==
    \/ \E t \in Threads : TakeBatch(t) /\ UNCHANGED <<cvars, rvars, lvars, pvars>>
    \/ \E t \in Threads : WorkerBegin(t) /\ UNCHANGED <<cvars, rvars, lvars, pvars>>
    \/ \E t \in Threads : WorkerFinish(t) /\ UNCHANGED <<cvars, rvars, lvars, pvars>>
    \/ FinalFlush /\ UNCHANGED <<cvars, rvars, lvars, pvars>>

SpecW == InitW /\ [][NextW]_vars

----------------------------------------------------------------------------
(* The runs: input arguments and worker threads *)

\* a file of k records that can be opened, and one that cannot
File(k) == [n |-> k, nl |-> TRUE, ok |-> TRUE]
BadFile(k) == [n |-> k, nl |-> TRUE, ok |-> FALSE]

\* lists of one or two files holding at most tot records in all
FileLists(tot) ==
    {<<File(k)>> : k \in 0..tot} \cup
    {<<File(q[1]), File(q[2])>> :
        q \in {x \in (0..tot) \X (0..tot) : x[1] + x[2] <= tot}}

\* lists of 1..tot literal sequences (-c)
LiteralLists(tot) == {[i \in 1..k |-> File(1)] : k \in 1..tot}

\* FASTA-continuous files: a header and b bases
FastaContLists ==
    {<<File(b)>> : b \in 0..(SampleLen + MaxRecs * SampleFreq)} \cup
    {<<File(SampleLen + SampleFreq), File(SampleLen)>>}

Args(format, si, m1, m2, m12, fp, skip) ==
    [format |-> format, si |-> si, m1 |-> m1, m2 |-> m2, m12 |-> m12,
     fileParallel |-> fp, skip |-> skip]

\* input of the file formats: interleaved lists, unpaired lists, paired lists,
\* paired and unpaired lists together
FileInputs ==
    {Args(f, <<>>, <<>>, <<>>, l, fp, 0) :
        f \in {"FASTA", "FASTQ"}, l \in FileLists(MaxRecs), fp \in BOOLEAN}
    \cup
    {Args(f, l, <<>>, <<>>, <<>>, fp, 0) :
        f \in {"FASTA", "FASTQ"}, l \in FileLists(MaxRecs), fp \in BOOLEAN}
    \cup
    {Args(f, <<>>, <<File(k)>>, <<File(m)>>, <<>>, FALSE, 0) :
        f \in {"FASTA", "FASTQ"}, k \in 0..MaxRecs, m \in 0..MaxRecs}
    \cup
    {Args(f, <<>>, l1, l2, <<>>, fp, 0) :
        f \in {"FASTA", "FASTQ"},
        l1 \in {l \in FileLists(MaxRecs - 1) : Len(l) = 2},
        l2 \in {l \in FileLists(MaxRecs - 1) : Len(l) = 2}, fp \in BOOLEAN}
    \cup
    {Args(f, <<File(k)>>, <<File(m)>>, <<File(m)>>, <<>>, FALSE, 0) :
        f \in {"FASTA", "FASTQ"}, k \in 1..2, m \in 0..1}

\* literal input (-c), with --skip
LiteralInputs ==
    {Args("CMDLINE", <<>>, <<>>, <<>>, l, fp, sk) :
        l \in LiteralLists(MaxRecs), fp \in BOOLEAN, sk \in 0..MaxSkip}
    \cup
    {Args("CMDLINE", l, <<>>, <<>>, <<>>, fp, sk) :
        l \in LiteralLists(MaxRecs), fp \in BOOLEAN, sk \in 0..MaxSkip}
    \cup
    {Args("CMDLINE", <<>>, l1, l2, <<>>, FALSE, sk) :
        l1 \in LiteralLists(MaxRecs), l2 \in LiteralLists(MaxRecs), sk \in 0..MaxSkip}

\* FASTA-continuous input
FastaContInputs ==
    {Args("FASTA_CONT", l, <<>>, <<>>, <<>>, fp, 0) :
        l \in FastaContLists, fp \in BOOLEAN}

\* the records a source is to dispense, from its input
AllRecords(s) ==
    CASE s.format \in {"FASTA", "FASTQ"} ->
           UNION {{[src |-> s.id, file |-> f - 1, idx |-> i] :
                      i \in 1..s.infiles_[f].n} :
                  f \in {g \in 1..Len(s.infiles_) : s.infiles_[g].ok}}
      [] s.format = "CMDLINE" ->
           {[src |-> s.id, file |-> 0, idx |-> i] : i \in (inp.skip + 1)..Len(s.infiles_)}
      [] s.format = "FASTA_CONT" ->
           UNION {{[src |-> s.id, file |-> f - 1, idx |-> i] :
                      i \in {j \in SampleLen..s.infiles_[f].n :
                               (j - SampleLen) % SampleFreq = 0}} :
                  f \in 1..Len(s.infiles_)}

\* the queue is not part of the runs of the composer
QueueUnused ==
    /\ oq_first = 0
    /\ oq = OutputQueueInit(TRUE, 0)
    /\ oq_st = <<>>
    /\ oq_by = <<>>
    /\ oq_reg = <<>>
    /\ oq_op = "new"
    /\ WorkersUnused
    /\ ParserUnused

InitWith(inputs) ==
    /\ inp \in inputs
    /\ max_buf_ \in 1..MaxBuf
    /\ LET c == setupPatternComposer(inp)
       IN /\ solo = c.solo
          /\ srca_ = c.srca_
          /\ srcb_ = c.srcb_
    /\ cur_ = 0
    /\ mutex_m = 0
    /\ th = [t \in Threads |-> IdleThread]
    /\ fatal = IF \E s \in Sources : s.exit_ THEN "novalid" ELSE "none"
    /\ ndisp = [r \in UNION {AllRecords(s) : s \in Sources} |-> 0]
    /\ emitted = {}
    /\ QueueUnused

Init == InitWith(FileInputs \cup LiteralInputs \cup FastaContInputs) /\ ReaderUnused /\ LocksUnused

Next ==
    \/ \E t \in Threads : Call(t) /\ UNCHANGED <<qvars, rvars, wvars, lvars, pvars>>
    \/ \E t \in Threads : Exhausted(t) /\ UNCHANGED <<qvars, rvars, wvars, lvars, pvars>>
    \/ \E t \in Threads : SoloRead(t) /\ UNCHANGED <<qvars, rvars, wvars, lvars, pvars>>
    \/ \E t \in Threads : UnpairedRead(t) /\ UNCHANGED <<qvars, rvars, wvars, lvars, pvars>>
    \/ \E t \in Threads : PairedLock(t) /\ UNCHANGED <<qvars, rvars, wvars, lvars, pvars>>
    \/ \E t \in Threads : PairedReadA(t) /\ UNCHANGED <<qvars, rvars, wvars, lvars, pvars>>
    \/ \E t \in Threads : PairedReadB(t) /\ UNCHANGED <<qvars, rvars, wvars, lvars, pvars>>
    \/ \E t \in Threads : Advance(t) /\ UNCHANGED <<qvars, rvars, wvars, lvars, pvars>>

Spec == Init /\ [][Next]_vars

\* literal input, every thread that can take a step eventually takes one (the
\* scheduler is fair and a released lock is eventually granted to each waiter)
InitLive == InitWith(LiteralInputs) /\ ReaderUnused /\ LocksUnused

SpecLive ==
    /\ InitLive
    /\ [][Next]_vars
    /\ \A t \in Threads : SF_vars(ThreadStep(t) /\ UNCHANGED <<qvars, rvars, wvars, lvars, pvars>>)

\* lists of one or two files, each of which may be one that cannot be opened
OpenLists ==
    LET files == {File(k) : k \in 0..(MaxRecs - 1)} \cup
                 {BadFile(k) : k \in 1..(MaxRecs - 1)}
    IN {<<f>> : f \in files} \cup {<<f, g>> : f \in files, g \in files}

\* the files of a list, all made openable
AllOpenable(l) == [i \in 1..Len(l) |-> File(l[i].n)]

\* input with unopenable files: an interleaved list, an unpaired list, or a
\* mate-1 list with the mate-2 files all openable
OpenInputs ==
    {Args(f, <<>>, <<>>, <<>>, l, FALSE, 0) : f \in {"FASTA", "FASTQ"}, l \in OpenLists}
    \cup
    {Args(f, l, <<>>, <<>>, <<>>, FALSE, 0) : f \in {"FASTA", "FASTQ"}, l \in OpenLists}
    \cup
    {Args(f, <<>>, l, AllOpenable(l), <<>>, FALSE, 0) :
        f \in {"FASTA", "FASTQ"}, l \in OpenLists}

InitO == InitWith(OpenInputs) /\ ReaderUnused /\ LocksUnused

SpecO == InitO /\ [][Next]_vars

----------------------------------------------------------------------------
(* The runs of Spec with each source's own mutex followed *)

\* the ids of the sources of the composer
SourceIds == {srca_[i].id : i \in 1..Len(srca_)} \cup {srcb_[i].id : i \in 1..Len(srcb_)}

InitL ==
    /\ InitWith(FileInputs \cup LiteralInputs \cup FastaContInputs)
    /\ ReaderUnused
    /\ smx = [id \in SourceIds |-> 0]

\* a composer that passes lock = true for the sources of paired slots too
TakesOwnLockAlways(t) ==
    /\ th[t].pc = "top"
    /\ th[t].cur < Len(srca_)

\* thread t is about to call nextBatch(pt, true, true) on a source
TakesOwnLock(t) ==
    /\ th[t].pc = "top"
    /\ th[t].cur < Len(srca_)
    /\ solo \/ srcb_[th[t].cur + 1] = NullSource

\* CFilePatternSource::nextBatch with lock = true: ThreadSafe ts(mutex)
SourceLock(t) ==
    /\ fatal = "none"
    /\ TakesOwnLock(t)
    /\ LET id == srca_[th[t].cur + 1].id
       IN /\ smx[id] # t
          /\ CanLock(smx[id])
          /\ smx' = [smx EXCEPT ![id] = t]
    /\ UNCHANGED cvars

\* nextBatchImpl under the source's mutex, which ts releases on return
SourceUnlock(t) ==
    /\ TakesOwnLock(t)
    /\ LET id == srca_[th[t].cur + 1].id
       IN /\ smx[id] = t
          /\ smx' = [smx EXCEPT ![id] = 0]

NextL ==
    \/ \E t \in Threads : Call(t) /\ UNCHANGED <<qvars, rvars, wvars, lvars, pvars>>
    \/ \E t \in Threads : Exhausted(t) /\ UNCHANGED <<qvars, rvars, wvars, lvars, pvars>>
    \/ \E t \in Threads : SourceLock(t) /\ UNCHANGED <<qvars, rvars, wvars, pvars>>
    \/ \E t \in Threads : SoloRead(t) /\ SourceUnlock(t) /\ UNCHANGED <<qvars, rvars, wvars, pvars>>
    \/ \E t \in Threads : UnpairedRead(t) /\ SourceUnlock(t) /\ UNCHANGED <<qvars, rvars, wvars, pvars>>
    \/ \E t \in Threads : PairedLock(t) /\ UNCHANGED <<qvars, rvars, wvars, lvars, pvars>>
    \/ \E t \in Threads : PairedReadA(t) /\ UNCHANGED <<qvars, rvars, wvars, lvars, pvars>>
    \/ \E t \in Threads : PairedReadB(t) /\ UNCHANGED <<qvars, rvars, wvars, lvars, pvars>>
    \/ \E t \in Threads : Advance(t) /\ UNCHANGED <<qvars, rvars, wvars, lvars, pvars>>

SpecL == InitL /\ [][NextL]_vars

----------------------------------------------------------------------------
(* PatternSourcePerThread::nextReadPair (SpecR) *)

\* what nextReadPair returned: (success, done); valid is FALSE during a call
Ret(success, done) == [valid |-> TRUE, success |-> success, done |-> done]
NoRet == [valid |-> FALSE, success |-> FALSE, done |-> FALSE]

\* no entry of a batch
NoEntry == [a |-> NoRec, b |-> NoRec, id |-> 0]

\* the name of a read whose record carries its own name; a default name is
\* the number that itoa10 prints
NoName == 0 - 1

\* PatternSourcePerThread after construction: the buffer is exhausted
NewPerThread ==
    [pc |-> "out", buf |-> <<>>, cur_buf_ |-> 0, last_batch_ |-> FALSE,
     last_batch_size_ |-> 0, at |-> NoEntry, ret |-> NoRet, name |-> NoName]

\* PerThreadReadBuf::exhausted: no filled element follows the current one
exhausted(p) == p.cur_buf_ + 1 >= Len(p.buf)

\* the batch of n reads that nextBatch has just put into the buffer, element i
\* being the read with id rdid + i - 1
BatchOf(new, rdid, n) == [i \in 1..n |-> CHOOSE e \in new : e.id = rdidOf(rdid, i)]

\* the outcome of parse on an entry of the buffer: parse of the first read,
\* which goes on to the mate when there is one
ParseOutcome(e) ==
    IF kinds[e.a] \in {"trunc", "qual"} THEN kinds[e.a]
    ELSE IF e.b # NoRec /\ kinds[e.b] \in {"trunc", "qual"} THEN kinds[e.b]
    ELSE "ok"

\* "Set up a default name if one hasn't been set" in parse, for the first read
\* of entry e: FastaPatternSource::parse prints rdid, FastqPatternSource::parse
\* prints readCnt_, the member of the source that nextBatchImpl advances;
\* srcs is the list of mate-1 sources as it is when parse runs
DefaultName(e, srcs) ==
    IF kinds[e.a] # "noname" THEN NoName
    ELSE IF inp.format = "FASTQ" THEN srcs[e.a.src[2]].readCnt_
    ELSE e.id

\* nextReadPair from "Parse read/pair"
\* on, p being the PatternSourcePerThread with its cursor on the entry to parse
ParseAndReturn(t, p, srcs) ==
    LET e            == p.buf[p.cur_buf_ + 1]
        this_is_last == p.cur_buf_ = p.last_batch_size_ - 1
    IN CASE ParseOutcome(e) = "qual" ->
              \* wrongQualityFormat / tooFewQualities / tooManyQualities: throw 1
              /\ thrown' = TRUE
              /\ ps' = [ps EXCEPT ![t] = [p EXCEPT !.at = e]]
         [] ParseOutcome(e) = "trunc" ->
              \* if(!parse(...)) return make_pair(false, false)
              /\ ps' = [ps EXCEPT ![t] = [p EXCEPT !.pc = "out", !.at = e,
                                                   !.ret = Ret(FALSE, FALSE)]]
              /\ UNCHANGED thrown
         [] OTHER ->
              \* finalize / finalizePair; return make_pair(true, this_is_last ? last_batch_ : false)
              /\ ps' = [ps EXCEPT ![t] = [p EXCEPT !.pc = "out", !.at = e,
                            !.name = DefaultName(e, srcs),
                            !.ret = Ret(TRUE, IF this_is_last THEN p.last_batch_ ELSE FALSE)]]
              /\ UNCHANGED thrown

\* nextReadPair is called with an exhausted buffer: nextBatch() is entered
ReadPairNewBatch(t) ==
    /\ ~thrown
    /\ ps[t].pc = "out"
    /\ exhausted(ps[t])
    /\ Call(t)
    /\ ps' = [ps EXCEPT ![t].pc = "in", ![t].ret = NoRet, ![t].buf = <<>>,
                        ![t].cur_buf_ = 0, ![t].at = NoEntry]
    /\ UNCHANGED <<kinds, thrown>>

\* nextReadPair is called with reads left in the buffer: buf_.next(), parse, return
ReadPairNext(t) ==
    /\ ~thrown
    /\ fatal = "none"
    /\ ps[t].pc = "out"
    /\ ~exhausted(ps[t])
    /\ ParseAndReturn(t, [ps[t] EXCEPT !.pc = "in", !.ret = NoRet, !.cur_buf_ = @ + 1],
                      srca_)
    /\ UNCHANGED <<kinds, cvars>>

\* nextReadPair once the step that thread t has just taken in nextBatch is done:
\* nothing when nextBatch goes on; return (false, true) on (true, 0); else
\* last_batch_ and last_batch_size_ are set and the first read is parsed
AfterBatchStep(t) ==
    /\ ~thrown
    /\ ps[t].pc = "in"
    /\ UNCHANGED kinds
    /\ CASE th'[t].pc = "done" ->
              /\ ps' = [ps EXCEPT ![t].pc = "out", ![t].ret = Ret(FALSE, TRUE)]
              /\ UNCHANGED thrown
         [] th'[t].pc = "idle" ->
              ParseAndReturn(t,
                  [ps[t] EXCEPT !.buf = BatchOf(emitted' \ emitted, th'[t].rdid,
                                                th'[t].resa.n),
                                !.cur_buf_ = 0,
                                !.last_batch_ = th'[t].resa.done,
                                !.last_batch_size_ = th'[t].resa.n],
                  srca_')
         [] OTHER -> UNCHANGED <<ps, thrown>>

\* FASTA and FASTQ input read record by record
ReaderInputs ==
    {Args(f, <<>>, <<>>, <<>>, l, fp, 0) :
        f \in {"FASTA", "FASTQ"}, l \in FileLists(MaxRecs), fp \in BOOLEAN}
    \cup
    {Args(f, <<File(k)>>, <<>>, <<>>, <<>>, FALSE, 0) :
        f \in {"FASTA", "FASTQ"}, k \in 0..MaxRecs}
    \cup
    {Args(f, <<>>, <<File(k)>>, <<File(m)>>, <<>>, FALSE, 0) :
        f \in {"FASTA", "FASTQ"}, k \in 0..(MaxRecs - 1), m \in 0..(MaxRecs - 1)}

\* every record is well formed, or one record is not: a FASTA record that ends
\* prematurely, a FASTQ record with a wrong number of qualities or a space in them;
\* or every record is well formed and one has an empty name
KindsOf(recs, format) ==
    {[r \in recs |-> "ok"]} \cup
    {[r \in recs |-> IF r = x THEN "noname" ELSE "ok"] : x \in recs} \cup
    {[r \in recs |-> IF r = x THEN (IF format = "FASTA" THEN "trunc" ELSE "qual")
                     ELSE "ok"] : x \in recs}

InitR ==
    /\ InitWith(ReaderInputs)
    /\ ps = [t \in Threads |-> NewPerThread]
    /\ kinds \in KindsOf(DOMAIN ndisp, inp.format)
    /\ thrown = FALSE
    /\ LocksUnused

NextR ==
    \/ \E t \in Threads : ReadPairNewBatch(t) /\ UNCHANGED <<qvars, wvars, lvars, pvars>>
    \/ \E t \in Threads : ReadPairNext(t) /\ UNCHANGED <<qvars, wvars, lvars, pvars>>
    \/ \E t \in Threads : Exhausted(t) /\ AfterBatchStep(t) /\ UNCHANGED <<qvars, wvars, lvars, pvars>>
    \/ \E t \in Threads : SoloRead(t) /\ AfterBatchStep(t) /\ UNCHANGED <<qvars, wvars, lvars, pvars>>
    \/ \E t \in Threads : UnpairedRead(t) /\ AfterBatchStep(t) /\ UNCHANGED <<qvars, wvars, lvars, pvars>>
    \/ \E t \in Threads : PairedLock(t) /\ AfterBatchStep(t) /\ UNCHANGED <<qvars, wvars, lvars, pvars>>
    \/ \E t \in Threads : PairedReadA(t) /\ AfterBatchStep(t) /\ UNCHANGED <<qvars, wvars, lvars, pvars>>
    \/ \E t \in Threads : PairedReadB(t) /\ AfterBatchStep(t) /\ UNCHANGED <<qvars, wvars, lvars, pvars>>
    \/ \E t \in Threads : Advance(t) /\ AfterBatchStep(t) /\ UNCHANGED <<qvars, wvars, lvars, pvars>>

SpecR == InitR /\ [][NextR]_vars

----------------------------------------------------------------------------
(* Claims about the composers (Spec) *)

\* the source with the given id
SourceOf(id) == IF id[1] = "b" THEN srcb_[id[2]] ELSE srca_[id[2]]

\* every entry of the input of a source, skipped or not
EntriesOf(s) ==
    IF s.format = "CMDLINE"
    THEN {[src |-> s.id, file |-> 0, idx |-> i] : i \in 1..Len(s.infiles_)}
    ELSE AllRecords(s)

\* the position (from 0) of record r in the input of its source, in file order
FileOrder(r) ==
    Cardinality({x \in EntriesOf(SourceOf(r.src)) :
                    x.file < r.file \/ (x.file = r.file /\ x.idx < r.idx)})

\* the records a thread holds in a batch that is still being filled
Held(t) == IF th[t].pc = "readB" THEN {th[t].bufa[i] : i \in 1..Len(th[t].bufa)} ELSE {}

\* slot i (from 1) of a Dual composer is a paired slot
PairedSlot(i) == ~solo /\ i \in 1..Len(srcb_) /\ srcb_[i] # NullSource

\* C3: no read is dispensed twice: every record of every source is in at most
\* one batch, returned or still being filled, of at most one thread, and no
\* batch holds anything that is not a record of the input.
C3_NoReadDispensedTwice ==
    /\ \A r \in DOMAIN ndisp :
          ndisp[r] + Cardinality({t \in Threads : r \in Held(t)}) <= 1
    /\ \A t \in Threads : Held(t) \subseteq DOMAIN ndisp
    /\ DOMAIN ndisp = UNION {AllRecords(s) : s \in Sources}

\* C3 witness: two sources, three or more records, each dispensed exactly once
C3_Witness ==
    /\ Len(srca_) >= 2
    /\ Cardinality(DOMAIN ndisp) >= 3
    /\ \A r \in DOMAIN ndisp : ndisp[r] = 1
    /\ Cardinality({e.id : e \in emitted}) >= 2

\* C4 (as claimed): a thread is told (exhausted, 0) only when every record of
\* every source has been dispensed.
C4_ExhaustedOnlyWhenAllDispensed ==
    \A t \in Threads :
        th[t].pc = "done" => \A r \in DOMAIN ndisp : ndisp[r] >= 1

\* thread t is inside nextBatch
InCall(t) == th[t].pc \in {"top", "readA", "readB", "adv"}

\* C5 (as claimed): every call of nextBatch returns, with a batch or with
\* (exhausted, 0), unless the run ends in a fatal error.
C5_EveryCallReturns ==
    \A t \in Threads : InCall(t) ~> (~InCall(t) \/ fatal # "none")

\* C6: in a paired slot, element i of the mate-1 buffer and element i of the
\* mate-2 buffer of every returned batch are the records at the same position
\* of the mate-1 and of the mate-2 input of that slot.
C6_MatesInLockStep ==
    \A e \in emitted :
        (e.a.src[1] = "a" /\ PairedSlot(e.a.src[2])) =>
            /\ e.b # NoRec
            /\ e.b.src = <<"b", e.a.src[2]>>
            /\ FileOrder(e.a) = FileOrder(e.b)

\* C6 witness: pairs from two batches have been returned and both threads have
\* read the paired slot
C6_Witness ==
    /\ \E e \in emitted : e.b # NoRec /\ FileOrder(e.b) >= 2
    /\ \A t \in Threads : th[t].resa.n > 0 /\ th[t].resb.n > 0

\* the mate-1 and mate-2 inputs of some paired slot hold different numbers of
\* records to dispense
MateCountsDiffer ==
    \E i \in 1..Len(srcb_) :
        PairedSlot(i) /\
        Cardinality(AllRecords(srca_[i])) # Cardinality(AllRecords(srcb_[i]))

InputABC ==
    /\ inp.format \in {"FASTA", "FASTQ"}
    /\ inp.m1 = <<File(3)>>
    /\ inp.m2 = <<File(2)>>
    /\ inp.si = <<>>
    /\ inp.m12 = <<>>

C9_IdIsFilePosition ==
    \A e \in emitted : e.id = FileOrder(e.a)

\* C10 (as claimed): no two reads or pairs returned by the composer carry the
\* same read id.
C10_IdsGloballyUnique ==
    \A e1 \in emitted : \A e2 \in emitted : e1.id = e2.id => e1 = e2

\* the input list (of inp) that record r comes from, and the number (from 0)
\* of r's file in that list
ListOf(r) ==
    LET k == r.src[1]
        i == r.src[2]
        n1 == Len(SourceLists(inp.m1, inp.fileParallel))
    IN CASE k = "ab" -> [list |-> inp.m12, file |-> IF inp.fileParallel THEN i - 1 ELSE r.file]
         [] k = "b"  -> [list |-> inp.m2,  file |-> IF inp.fileParallel THEN i - 1 ELSE r.file]
         [] k = "a" /\ i <= n1 ->
                        [list |-> inp.m1,  file |-> IF inp.fileParallel THEN i - 1 ELSE r.file]
         [] OTHER    -> [list |-> inp.si,
                         file |-> IF inp.fileParallel THEN i - n1 - 1 ELSE r.file]

\* the number of records of the first f files of a list
RECURSIVE RecordsBefore(_, _)
RecordsBefore(list, f) ==
    IF f = 0 THEN 0 ELSE list[f].n + RecordsBefore(list, f - 1)

\* the read id record r gets when its list is read by one source (fileParallel
\* off): its position in the list
ListOrder(r) ==
    LET l == ListOf(r) IN RecordsBefore(l.list, l.file) + r.idx - 1

\* C11 (as claimed): with fileParallel on, every record of FASTA / FASTQ input
\* gets the read id it gets with fileParallel off, its position in its input
\* list, and as many records are dispensed: all of them, once every thread was
\* told (exhausted, 0).
C11_SameIdsAsWithoutFileParallel ==
    inp.format \in {"FASTA", "FASTQ"} =>
        /\ \A e \in emitted : e.id = ListOrder(e.a)
        /\ (\A t \in Threads : th[t].pc = "done") =>
               \A r \in DOMAIN ndisp : ndisp[r] >= 1


\* every record of the input has been dispensed by the composer
AllDispensed == \A r \in DOMAIN ndisp : ndisp[r] >= 1

\* C14 (as claimed): the run ends in the 'no valid input' exit only when a
\* source has no file that can be opened; when every thread has been told
\* (exhausted, 0), every record of every file that can be opened has been
\* dispensed.
C14_UnopenableFilesAreSkipped ==
    /\ fatal = "novalid" =>
           \E s \in Sources : \A f \in 1..Len(s.infiles_) : ~s.infiles_[f].ok
    /\ (\A t \in Threads : th[t].pc = "done") => AllDispensed

\* C20: a batch returned with fewer records than the capacity is the final
\* non-empty batch of its source: once a thread is back from nextBatch with
\* 0 < n < max_buf_ records of a source, every record of that source has been
\* returned in a batch.
C20_PartialBatchOnlyAtEndOfSource ==
    \A t \in Threads :
        (th[t].pc = "idle" /\ 0 < th[t].resa.n /\ th[t].resa.n < max_buf_) =>
            \A r \in AllRecords(srca_[th[t].cur + 1]) : ndisp[r] >= 1

----------------------------------------------------------------------------
(* Claims about nextReadPair (SpecR) *)

\* C12 (as claimed): nextReadPair returns (false, true) exactly when the
\* composer reported (exhausted, 0) to the call, (false, false) exactly when
\* the record it parsed failed to parse, and (true, d) otherwise, with d true
\* only for the last element of a batch after which no record of any file of
\* any source is left to dispense.
C12_ReturnsOfNextReadPair ==
    \A t \in Threads :
        LET r == ps[t].ret
        IN r.valid =>
            /\ (~r.success /\ r.done) <=> th[t].pc = "done"
            /\ (~r.success /\ ~r.done) <=>
                   (ps[t].at # NoEntry /\ ParseOutcome(ps[t].at) # "ok")
            /\ (r.success /\ r.done) =>
                   /\ ps[t].cur_buf_ = Len(ps[t].buf) - 1
                   /\ AllDispensed

\* C13 (as claimed): a record with a wrong number of qualities, or a space in
\* its qualities, raises no exception: the call that parses it returns
\* (false, false).
C13_QualityFailureIsRecoverable ==
    /\ ~thrown
    /\ \A t \in Threads :
          (ps[t].at # NoEntry /\ ParseOutcome(ps[t].at) = "qual") =>
              ps[t].ret = Ret(FALSE, FALSE)

\* C22: the name that parse gives a read whose record has none depends on the
\* record, its read id and its batch only, so it is the name that a run with
\* one thread gives: the read id (FASTA), the source's read count at the end of
\* the read's batch (FASTQ), whatever the other threads have done meanwhile.
C22_ParsedNameIndependentOfThreads ==
    \A t \in Threads :
        (ps[t].ret.valid /\ ps[t].ret.success /\ kinds[ps[t].at.a] = "noname") =>
            ps[t].name = IF inp.format = "FASTQ"
                         THEN ps[t].buf[1].id + Len(ps[t].buf)
                         ELSE ps[t].at.id

----------------------------------------------------------------------------
(* Claims about the OutputQueue (SpecQ) *)

\* the records registered for the ids lo..hi, in increasing id order
RecordsOf(lo, hi) == [i \in 1..(hi - lo + 1) |-> oq_reg[lo + i - 1]]

\* C1: with reorder on, in every state reached by any interleaving of
\* beginRead / finishRead / flush, the output written so far is exactly the
\* records of the ids first..cur_-1 in increasing id order, and the flushed ids
\* are exactly the ids below cur_: no id was written while a smaller id was still
\* unflushed, with or without force.
C1_OutputIsOrderedPrefix ==
    /\ oq.ofh_ = RecordsOf(oq_first, oq.cur_ - 1)
    /\ \A id \in Ids : (oq_st[id] = "FLUSHED") <=> (id < oq.cur_)
    /\ \A id \in Ids : \A k \in Ids :
          (oq_st[id] = "FLUSHED" /\ k < id) => oq_st[k] = "FLUSHED"

\* C1 witness: a forced flush has just run, some record is written, and a
\* committed id waits behind a smaller id that is not committed
C1_Witness ==
    /\ oq_op = "flushForce"
    /\ Len(oq.ofh_) >= 1
    /\ \E id \in Ids, k \in Ids :
          k < id /\ oq_st[id] = "COMMITTED" /\ oq_st[k] \in {"UNSEEN", "STARTED"}

AllCommitted == \A id \in Ids : oq_st[id] \in {"COMMITTED", "FLUSHED"}

\* C2: once every id has had its beginRead and finishRead and flush(force=true)
\* has run, the output is the NumIds registered records in increasing id order
\* and no slot is left buffered.
C2_ForcedFlushWritesAll ==
    (AllCommitted /\ oq_op = "flushForce") =>
        /\ oq.ofh_ = RecordsOf(oq_first, oq_first + NumIds - 1)
        /\ Len(oq.ofh_) = NumIds
        /\ size(oq) = 0
        /\ oq.cur_ = oq_first + NumIds

\* C2 witness: all ids committed out of id order by more than one thread, and
\* the forced flush has written them all
C2_Witness ==
    /\ AllCommitted
    /\ oq_op = "flushForce"
    /\ Len(oq.ofh_) = NumIds
    /\ \E a \in Ids, b \in Ids : oq_by[a] # oq_by[b]
    /\ \E a \in Ids, b \in Ids : oq_reg[a] # oq_reg[b]

\* the place of a state in the life of a read id
Rank(st) ==
    CASE st = "UNSEEN"    -> 0
      [] st = "STARTED"   -> 1
      [] st = "COMMITTED" -> 2
      [] st = "FLUSHED"   -> 3

\* the ids whose state a step changes to st
Becomes(st) == {id \in Ids : oq_st[id] # st /\ oq_st'[id] = st}

\* C15: every step takes each read id forward in UNSEEN, STARTED, COMMITTED,
\* FLUSHED, by one state (by two only for the id that a finishRead call commits
\* and flushes itself); finishRead commits only a STARTED id, a record is
\* written only for an id that was COMMITTED (or is committed by this very
\* call), once for each id that becomes FLUSHED, and no id goes back.
C15_LifeCycle ==
    [][/\ \A id \in Ids :
             /\ Rank(oq_st'[id]) >= Rank(oq_st[id])
             /\ Rank(oq_st'[id]) <= Rank(oq_st[id]) + 1
                \/ /\ oq_op' = "finishRead"
                   /\ oq_st[id] = "STARTED"
                   /\ oq_st'[id] = "FLUSHED"
                   /\ Cardinality({k \in Ids : oq_st[k] = "STARTED" /\ oq_st'[k] # "STARTED"}) = 1
       /\ Becomes("COMMITTED") # {} => oq_op' = "finishRead"
       /\ Becomes("STARTED") # {} => oq_op' = "beginRead"
       /\ Len(oq'.ofh_) = Len(oq.ofh_) + Cardinality(Becomes("FLUSHED"))
       /\ numFlushed(oq') = numFlushed(oq) + Cardinality(Becomes("FLUSHED"))
      ]_vars

\* C15 witness: ids in each of the four states at once
C15_Witness ==
    /\ \A st \in {"UNSEEN", "STARTED", "COMMITTED", "FLUSHED"} :
           \E id \in Ids : oq_st[id] = st
    /\ Len(oq.ofh_) >= 1

\* the ids that beginRead was called for
Touched == {id \in Ids : oq_st[id] # "UNSEEN"}

\* C16: lines_, started_ and finished_ have the same length, which is at least
\* (highest id touched - cur_ + 1); slot i (from 0) stands for id cur_ + i:
\* its flags and its line are those of that id; the last slot is one that was
\* referenced; ids below cur_ are flushed and have no slot.
C16_SlotArrays ==
    /\ Len(oq.lines_) = Len(oq.started_)
    /\ Len(oq.lines_) = Len(oq.finished_)
    /\ \A id \in Touched : Len(oq.lines_) >= id - oq.cur_ + 1
    /\ \A i \in 1..Len(oq.lines_) :
          LET id == oq.cur_ + i - 1
          IN /\ id \in Ids
             /\ oq.started_[i] <=> oq_st[id] \in {"STARTED", "COMMITTED"}
             /\ oq.finished_[i] <=> oq_st[id] = "COMMITTED"
             /\ oq.finished_[i] => oq.lines_[i] = oq_reg[id]
    /\ Len(oq.lines_) > 0 => oq.cur_ + Len(oq.lines_) - 1 \in Touched
    /\ \A id \in Ids : id < oq.cur_ => oq_st[id] = "FLUSHED"

\* C16 witness: after a flush has removed slots, slots are left for a started
\* id, a committed id and an id between them that was never referenced
C16_Witness ==
    /\ oq.cur_ > oq_first
    /\ size(oq) >= 3
    /\ \E i \in 1..size(oq) : ~oq.started_[i]
    /\ \E i \in 1..size(oq) : oq.finished_[i]

\* the slot of the lowest unflushed id is not committed: a flush has nothing to write
HeadNotCommitted == CommittedPrefix(oq.finished_, 0) = 0

\* C17: after flush(force=true) the head slot is not committed, beginRead
\* calls leave it so, and a flush(force=true) called then (no record was
\* committed since the previous one) changes nothing: no byte is written,
\* cur_ and the flushed counters stay, the bytes written stay as they are.
C17_ForcedFlushIdempotent ==
    /\ [](oq_op = "flushForce" => HeadNotCommitted)
    /\ [][(HeadNotCommitted /\ oq_op' = "beginRead") => HeadNotCommitted']_vars
    /\ [][(HeadNotCommitted /\ oq_op' = "flushForce") =>
             /\ oq'.ofh_ = oq.ofh_
             /\ oq'.cur_ = oq.cur_
             /\ oq'.perThreadFlushed_ = oq.perThreadFlushed_
             /\ oq' = oq]_vars

\* C17 witness: flush(force=true) has run, records are written, and committed
\* records are still buffered behind an id that is not committed
C17_Witness ==
    /\ oq_op = "flushForce"
    /\ Len(oq.ofh_) >= 2
    /\ HeadNotCommitted
    /\ \E i \in 1..size(oq) : oq.finished_[i]

----------------------------------------------------------------------------
(* Claims about the OutputQueue with reorder off (SpecQN) *)

\* the ids finishRead was called for
Committed == {id \in Ids : oq_reg[id] # ""}

\* how many times rec stands in the sequence out
Occurrences(out, rec) == Cardinality({i \in 1..Len(out) : out[i] = rec})

----------------------------------------------------------------------------
(* Claims about the OutputQueue and workers that take batches (SpecW) *)

\* C19 as stated: size() never exceeds thread count times batch capacity
C19_SizeWithinThreadsTimesCapacity == size(oq) <= NThreads * max_buf_

\* C19: size() never exceeds the number of ids dispensed and not yet flushed
\* (next id to dispense - cur_), and at most one slot per worker is started
\* and not committed.
C19_SizeWithinSkew ==
    /\ size(oq) <= wk_cnt - oq.cur_
    /\ Cardinality({i \in 1..size(oq) : oq.started_[i] /\ ~oq.finished_[i]}) <= NThreads
    /\ \A i \in 1..size(oq) :
          (oq.started_[i] /\ ~oq.finished_[i]) =>
              \E t \in Threads : wk[t].busy /\ wk[t].lo + wk[t].i = oq.cur_ + i - 1

\* C19 witness: one worker is still on the first id of its batch while the
\* slots buffered behind it outnumber thread count times batch capacity
C19_Witness ==
    /\ size(oq) > NThreads * max_buf_
    /\ size(oq) = wk_cnt - oq.cur_
    /\ max_buf_ >= 2
    /\ \E t \in Threads : wk[t].busy /\ wk[t].i = 0 /\ wk[t].lo = oq.cur_

----------------------------------------------------------------------------
(* genRandSeed and PatternSourcePerThread::finalize (SpecS) *)

\* a uint32_t is kept as its four bytes, lowest first
U32(b0, b1, b2, b3) == <<b0, b1, b2, b3>>

\* exclusive or of two values below 2^n
RECURSIVE XorBits(_, _, _)
XorBits(a, b, n) ==
    IF n = 0 THEN 0
    ELSE (((a % 2) + (b % 2)) % 2) + 2 * XorBits(a \div 2, b \div 2, n - 1)

\* x ^= v << (8 * k) for a v below 2^16, in 32 bits: what is shifted past
\* bit 31 is lost
XorAt(x, k, v) ==
    [j \in 1..4 |->
        IF j = k + 1 THEN XorBits(x[j], v % 256, 8)
        ELSE IF j = k + 2 THEN XorBits(x[j], (v \div 256) % 256, 8)
        ELSE x[j]]

\* x + m and x * m for a small m, modulo 2^32
AddSmall(x, m) ==
    LET s1 == x[1] + m
        s2 == x[2] + (s1 \div 256)
        s3 == x[3] + (s2 \div 256)
        s4 == x[4] + (s3 \div 256)
    IN U32(s1 % 256, s2 % 256, s3 % 256, s4 % 256)

MulSmall(x, m) ==
    LET s1 == x[1] * m
        s2 == x[2] * m + (s1 \div 256)
        s3 == x[3] * m + (s2 \div 256)
        s4 == x[4] * m + (s3 \div 256)
    IN U32(s1 % 256, s2 % 256, s3 % 256, s4 % 256)

\* the characters '/', '1', '2', 'a', 'b' and the qualities '!' and 'I'
Slash == 47

\* genRandSeed, the loop over the bases: rseed ^= (p << ((i & 15) << 1))
RECURSIVE QryLoop(_, _, _)
QryLoop(rseed, qry, i) ==
    IF i >= Len(qry) THEN rseed
    ELSE LET off == (i % 16) * 2
         IN QryLoop(XorAt(rseed, off \div 8, qry[i + 1] * (2 ^ (off % 8))), qry, i + 1)

\* genRandSeed, the loop over the qualities of the qlen bases:
\* rseed ^= (p << ((i & 3) << 3))
RECURSIVE QualLoop(_, _, _, _)
QualLoop(rseed, qual, qlen, i) ==
    IF i >= qlen THEN rseed
    ELSE QualLoop(XorAt(rseed, i % 4, qual[i + 1]), qual, qlen, i + 1)

\* genRandSeed, the loop over the name: it stops at the first '/'
RECURSIVE NameLoop(_, _, _)
NameLoop(rseed, name, i) ==
    IF i >= Len(name) \/ name[i + 1] = Slash THEN rseed
    ELSE NameLoop(XorAt(rseed, i % 4, name[i + 1]), name, i + 1)

\* a mutant of genRandSeed: the whole name is thrown in, also past a '/'
GenRandSeedWholeName(qry, qual, name, seed) ==
    LET RECURSIVE NameLoopWhole(_, _)
        NameLoopWhole(rseed, i) ==
            IF i >= Len(name) THEN rseed
            ELSE NameLoopWhole(XorAt(rseed, i % 4, name[i + 1]), i + 1)
        r0 == MulSmall(MulSmall(MulSmall(MulSmall(MulSmall(MulSmall(MulSmall(
                  AddSmall(seed, 101), 59), 61), 67), 71), 73), 79), 83)
        r1 == QryLoop(r0, qry, 0)
        r2 == QualLoop(r1, qual, Len(qry), 0)
    IN NameLoopWhole(r2, 0)

\* genRandSeed(qry, qual, name, seed)
genRandSeed(qry, qual, name, seed) ==
    LET r0 == MulSmall(MulSmall(MulSmall(MulSmall(MulSmall(MulSmall(MulSmall(
                  AddSmall(seed, 101), 59), 61), 67), 71), 73), 79), 83)
        r1 == QryLoop(r0, qry, 0)
        r2 == QualLoop(r1, qual, Len(qry), 0)
    IN NameLoop(r2, name, 0)

\* PatternSourcePerThread::finalize: ra.rdid = buf_.rdid(); ra.seed = genRandSeed(...)
finalize(ra, rdid, seed) ==
    [ra EXCEPT !.rdid = rdid, !.seed = genRandSeed(ra.patFw, ra.qual, ra.name, seed),
               !.final = TRUE]

\* sequences of length n over the set S
RECURSIVE SeqsOf(_, _)
SeqsOf(S, n) ==
    IF n = 0 THEN {<<>>}
    ELSE {Append(x, c) : x \in SeqsOf(S, n - 1), c \in S}

\* names: empty, without '/', with bytes after a '/'
SeedNames ==
    {<<>>, <<97>>, <<98>>, <<97, Slash>>, <<97, Slash, 49>>, <<97, Slash, 50>>,
     <<Slash, 49>>, <<97, 98>>, <<97, 98, 97, 98, 97>>}

\* parsed reads: bases C and N, one quality per base
SeedReads ==
    UNION {{[patFw |-> q, qual |-> l, name |-> n, rdid |-> 0, seed |-> U32(0, 0, 0, 0),
             final |-> FALSE] :
               q \in SeqsOf({1, 4}, k), l \in SeqsOf({33, 73}, k), n \in SeedNames} :
           k \in 0..MaxReadLen}

\* no queue in the runs that follow bytes
NoQueue ==
    /\ oq_first = 0
    /\ oq = OutputQueueInit(TRUE, 0)
    /\ oq_st = <<>>
    /\ oq_by = <<>>
    /\ oq_reg = <<>>
    /\ oq_op = "new"

\* each thread holds one parsed read; the read of thread 2 has the bases and
\* qualities of the read of thread 1, or those in reverse, and any name;
\* pst[t] is the read id of the read of thread t
InitS ==
    /\ ComposerUnused
    /\ ReaderUnused
    /\ LocksUnused
    /\ WorkersUnused
    /\ NoQueue
    /\ \E sd \in {U32(0, 0, 0, 0), U32(255, 255, 255, 255)} :
       \E r1 \in SeedReads : \E n2 \in SeedNames : \E rev \in BOOLEAN :
          LET Rev(x) == [i \in 1..Len(x) |-> x[Len(x) + 1 - i]]
              r2 == [r1 EXCEPT !.name = n2,
                               !.patFw = IF rev THEN Rev(@) ELSE @,
                               !.qual = IF rev THEN Rev(@) ELSE @]
          IN pin = [seed |-> sd, rd |-> [t \in Threads |-> IF t = 1 THEN r1 ELSE r2]]
    /\ pst \in {[t \in Threads |-> t - 1], [t \in Threads |-> NThreads - t]}
    /\ pout = [t \in Threads |-> pin.rd[t]]

\* thread t finalizes its read
Finalize(t) ==
    /\ ~pout[t].final
    /\ pout' = [pout EXCEPT ![t] = finalize(pin.rd[t], pst[t], pin.seed)]
    /\ UNCHANGED <<pin, pst>>

NextS ==
    \/ \E t \in Threads : Finalize(t) /\ UNCHANGED <<qvars, cvars, rvars, wvars, lvars>>

SpecS == InitS /\ [][NextS]_vars

----------------------------------------------------------------------------
(* Claims about the locks of the sources (SpecL) *)

\* thread t takes the step
Acts(t) == th'[t] # th[t]

\* C21 as stated: every step that changes a source (file index, cursor,
\* first-record flag, read count) is taken by a thread that holds that
\* source's own mutex
C21_MutatedUnderOwnLock ==
    [][\A t \in Threads : \A i \in 1..Len(srca_) :
          Acts(t) =>
             /\ srca_'[i] # srca_[i] => smx[srca_[i].id] = t
             /\ srcb_'[i] # srcb_[i] => smx[srcb_[i].id] = t]_vars

\* C21: every step that changes a source is taken by a thread that holds the
\* source's own mutex (Solo, and the unpaired slots of Dual) or the composer's
\* mutex_m (the paired slots of Dual, whose sources' own mutexes are never
\* taken); no step changes a source whose lock another thread holds.
C21_MutatedUnderOwnOrComposerLock ==
    /\ [][\A t \in Threads : \A i \in 1..Len(srca_) :
             Acts(t) =>
                /\ srca_'[i] # srca_[i] =>
                      IF PairedSlot(i)
                      THEN mutex_m = t /\ smx[srca_[i].id] = 0
                      ELSE smx[srca_[i].id] = t
                /\ srcb_'[i] # srcb_[i] =>
                      PairedSlot(i) /\ mutex_m = t /\ smx[srcb_[i].id] = 0]_vars
    /\ [](\A i \in 1..Len(srca_) : PairedSlot(i) => smx[srca_[i].id] = 0)

\* C21 witness: a thread between its two paired reads holds mutex_m, has
\* advanced the mate-1 source, and no thread holds that source's own mutex
C21_Witness ==
    \E t \in Threads :
        /\ th[t].pc = "readB"
        /\ mutex_m = t
        /\ srca_[th[t].cur + 1].readCnt_ > 0
        /\ smx[srca_[th[t].cur + 1].id] = 0
        /\ \E u \in Threads : u # t /\ th[u].pc = "top" /\ th[u].cur = th[t].cur

----------------------------------------------------------------------------
(* Claims about genRandSeed (SpecS) *)

\* the bytes of a name before its first '/'
RECURSIVE BeforeSlash(_)
BeforeSlash(name) ==
    IF name = <<>> \/ Head(name) = Slash THEN <<>>
    ELSE <<Head(name)>> \o BeforeSlash(Tail(name))

\* C23: two finalized reads with the same bases, the same qualities and the
\* same name bytes before the first '/' have the same seed, whatever their
\* read ids and the threads that finalized them; a seed is four bytes.
C23_SeedDependsOnReadOnly ==
    /\ \A t \in Threads : \A j \in 1..4 : pout[t].seed[j] \in 0..255
    /\ \A t \in Threads : \A u \in Threads :
          (/\ pout[t].final /\ pout[u].final
           /\ pout[t].patFw = pout[u].patFw
           /\ pout[t].qual = pout[u].qual
           /\ BeforeSlash(pout[t].name) = BeforeSlash(pout[u].name)) =>
              pout[t].seed = pout[u].seed

\* C23 witness: two threads have finalized reads with different read ids and
\* names that differ after the '/' only, and the seed is not the one of the
\* same read without a name
C23_Witness ==
    /\ pout[1].final /\ pout[2].final
    /\ pout[1].rdid # pout[2].rdid
    /\ pout[1].name # pout[2].name
    /\ pout[1].patFw = pout[2].patFw /\ Len(pout[1].patFw) = MaxReadLen
    /\ BeforeSlash(pout[1].name) = BeforeSlash(pout[2].name)
    /\ BeforeSlash(pout[1].name) # <<>>
    /\ pout[1].seed = pout[2].seed
    /\ pout[1].seed # genRandSeed(pout[1].patFw, pout[1].qual, <<>>, pin.seed)

----------------------------------------------------------------------------
(* FASTQ: light parsing and parsing of the bytes of one file (SpecFq) *)

\* the most records of a FASTQ file
MaxFqRecs == 2

\* the most bases trimmed at either end
MaxTrim == 1

\* bytes; getc_wrapper() returns EOF at the end of the file
EOF == 0 - 1
ChTab == 9
ChNL == 10
ChCR == 13
ChSP == 32
ChPlus == 43
ChDot == 46
ChGt == 62
ChAt == 64
ChN == 78
ChUnderscore == 95

\* getc_wrapper() of a file f of which p bytes have been read
getc(f, p) == IF p < Len(f) THEN f[p + 1] ELSE EOF

\* isalpha(c) in the C locale
isalpha(c) == c \in 65..90 \/ c \in 97..122

\* asc2dna[c]: A, C, G, T are 0..3 in either case, N is 4
asc2dna(c) ==
    CASE c \in {65, 97} -> 0
      [] c \in {67, 99} -> 1
      [] c \in {71, 103} -> 2
      [] c \in {84, 116} -> 3
      [] c \in {78, 110} -> 4
      [] OTHER -> 0

\* itoa10(n, cbuf): the decimal digits of n
RECURSIVE itoa10(_)
itoa10(n) ==
    IF n < 10 THEN <<48 + n>> ELSE Append(itoa10(n \div 10), 48 + (n % 10))

\* the body of while(newlines) for a parser that does not take the end of the
\* file for the newline of the last line
FqByteStrictEof(f, r) ==
    LET c == getc(f, r.p)
        done == c < 0
        p1 == IF done THEN r.p ELSE r.p + 1
    IN IF c = ChNL
       THEN [r EXCEPT !.p = p1, !.done = done, !.c = ChNL,
                      !.newlines = @ - 1, !.buf = Append(@, ChNL)]
       ELSE IF done
       THEN [r EXCEPT !.done = TRUE, !.c = c, !.brk = TRUE,
                      !.newlines = IF @ = 4 THEN 0 ELSE @,
                      !.aborted = (r.newlines # 4)]
       ELSE [r EXCEPT !.p = p1, !.done = FALSE, !.c = c, !.buf = Append(@, c)]

\* FastqPatternSource::nextBatchFromFile, the body of while(newlines): one
\* byte of a record; r.p bytes of the file are read, r.c is the last byte
\* seen, r.brk is set by break
FqByte(f, r) ==
    LET c == getc(f, r.p)
        done == c < 0
        p1 == IF done THEN r.p ELSE r.p + 1
    IN IF c = ChNL \/ (done /\ r.newlines = 1)
       THEN [r EXCEPT !.p = p1, !.done = done, !.c = ChNL,
                      !.newlines = @ - 1, !.buf = Append(@, ChNL)]
       ELSE IF done
       THEN [r EXCEPT !.done = TRUE, !.c = c, !.brk = TRUE,
                      !.newlines = IF @ = 4 THEN 0 ELSE @,
                      !.aborted = (r.newlines # 4)]
       ELSE [r EXCEPT !.p = p1, !.done = FALSE, !.c = c, !.buf = Append(@, c)]

\* FastqPatternSource::nextBatchFromFile, while(newlines): the bytes of one
\* record
RECURSIVE FqRecord(_, _)
FqRecord(f, r) ==
    IF r.newlines = 0 \/ r.brk THEN r ELSE FqRecord(f, FqByte(f, r))

\* FastqPatternSource::nextBatchFromFile, while(readi < pt.max_buf_ && !done);
\* s.bufs are the buffers filled, s.cur is readbuf[readi]
RECURSIVE FqLoop(_, _, _)
FqLoop(f, max_buf, s) ==
    IF ~(Len(s.bufs) < max_buf /\ ~s.done) THEN s
    ELSE LET r == FqRecord(f, [p |-> s.p, buf |-> s.cur, newlines |-> 4,
                                done |-> FALSE, aborted |-> FALSE, c |-> EOF,
                                brk |-> FALSE])
         IN FqLoop(f, max_buf,
                   [p |-> r.p, done |-> r.done, aborted |-> r.aborted,
                    bufs |-> IF r.c > 0 THEN Append(s.bufs, r.buf) ELSE s.bufs,
                    cur |-> IF r.c > 0 THEN <<>> ELSE r.buf])

\* FastqPatternSource::nextBatchFromFile without blocks and without
\* interleaving, of a file f of which st.p bytes are read: the state after the
\* call, the pair returned and the buffers of the records counted
FastqLightParse(f, max_buf, st) ==
    LET c0 == getc(f, st.p)
        RECURSIVE SkipBlank(_)
        SkipBlank(p) == IF getc(f, p) \in {ChCR, ChNL} THEN SkipBlank(p + 1) ELSE p
        p0 == SkipBlank(st.p)
        c1 == getc(f, p0)
        start == IF st.first_ THEN [p |-> IF c1 = EOF THEN p0 ELSE p0 + 1, cur |-> <<ChAt>>]
                 ELSE [p |-> st.p, cur |-> <<>>]
        s == FqLoop(f, max_buf, [p |-> start.p, done |-> FALSE, aborted |-> FALSE,
                                 bufs |-> <<>>, cur |-> start.cur])
        readi == IF s.aborted THEN Len(s.bufs) - 1 ELSE Len(s.bufs)
    IN IF st.first_ /\ c0 = EOF
       THEN [st |-> st, done |-> TRUE, nread |-> 0, bufs |-> <<>>, thrown |-> FALSE]
       ELSE IF st.first_ /\ c1 # ChAt
       THEN [st |-> [st EXCEPT !.p = start.p], done |-> FALSE, nread |-> 0,
             bufs |-> <<>>, thrown |-> TRUE]
       ELSE [st |-> [st EXCEPT !.p = s.p, !.first_ = FALSE], done |-> s.done,
             nread |-> readi,
             bufs |-> IF readi < 0 THEN <<>> ELSE SubSeq(s.bufs, 1, readi),
             thrown |-> FALSE]

\* the byte at offset off of a buffer; a read past the end of the buffer
\* yields the terminator of the string
BufAt(buf, off) == IF off < Len(buf) THEN buf[off + 1] ELSE 0

\* FastqPatternSource::parse, the loop of the name: the name, the offset and
\* the first byte after the line breaks that end the name
RECURSIVE FqName(_, _, _, _)
FqName(buf, off, name, spacerun) ==
    LET c == BufAt(buf, off)
        RECURSIVE SkipBreaks(_)
        SkipBreaks(o) ==
            IF BufAt(buf, o) \in {ChNL, ChCR} THEN SkipBreaks(o + 1)
            ELSE [off |-> o + 1, c |-> BufAt(buf, o)]
    IN IF c \in {ChNL, ChCR} \/ off >= Len(buf)
       THEN [name |-> name] @@ SkipBreaks(off + 1)
       ELSE IF c = ChSP THEN FqName(buf, off + 1, name, spacerun + 1)
       ELSE FqName(buf, off + 1, name \o [i \in 1..spacerun |-> ChSP] \o <<c>>, 0)

\* FastqPatternSource::parse, while(c != '+'): the bases and their count
RECURSIVE FqSeq(_, _, _, _, _, _)
FqSeq(buf, off, c, patFw, nchar, trim5) ==
    IF c = ChPlus \/ off > Len(buf) THEN [patFw |-> patFw, nchar |-> nchar, off |-> off, c |-> c]
    ELSE LET c1 == IF c = ChDot THEN ChN ELSE c
         IN FqSeq(buf, off + 1, BufAt(buf, off),
                  IF isalpha(c1) /\ nchar >= trim5 THEN Append(patFw, asc2dna(c1)) ELSE patFw,
                  IF isalpha(c1) THEN nchar + 1 ELSE nchar, trim5)

\* charToPhred33(c, solexa64, phred64) with both encodings off
charToPhred33(c) == c

\* FastqPatternSource::parse, the qualities that are not integers: the
\* qualities appended from the byte c on, or "wrongQualityFormat"
RECURSIVE FqQual(_, _, _, _, _, _)
FqQual(buf, off, c, qual, nqual, trimmed5) ==
    LET q1 == IF nqual >= trimmed5 THEN Append(qual, charToPhred33(c)) ELSE qual
    IN IF ~(off < Len(buf)) THEN [qual |-> q1, err |-> "none"]
       ELSE LET c1 == BufAt(buf, off)
            IN IF c1 = ChSP THEN [qual |-> q1, err |-> "wrongQualityFormat"]
               ELSE IF c1 \in {ChCR, ChNL, 0} THEN [qual |-> q1, err |-> "none"]
               ELSE FqQual(buf, off + 1, c1, q1, nqual + 1, trimmed5)

\* SString::trimEnd(n): the string without its last n elements, or empty
trimEnd(s, n) == IF n >= Len(s) THEN <<>> ELSE SubSeq(s, 1, Len(s) - n)

\* FastqPatternSource::parse of one buffer, without integer qualities and
\* without a mate; readCnt is the value of readCnt_ that the call reads
FastqParse(buf, trim5, trim3, readCnt) ==
    LET nm == FqName(buf, 1, <<>>, 0)
        sq == FqSeq(buf, nm.off, nm.c, <<>>, 0, trim5)
        trimmed5 == sq.nchar - Len(sq.patFw)
        trimmed3 == IF trim3 >= Len(sq.patFw) THEN Len(sq.patFw) ELSE trim3
        patFw == trimEnd(sq.patFw, trim3)
        RECURSIVE PlusLine(_)
        PlusLine(o) ==
            IF BufAt(buf, o) \in {ChNL, ChCR} \/ o >= Len(buf) THEN o + 1 ELSE PlusLine(o + 1)
        RECURSIVE SkipBreaks(_, _)
        SkipBreaks(o, c) ==
            IF o < Len(buf) /\ c \in {ChNL, ChCR} THEN SkipBreaks(o + 1, BufAt(buf, o))
            ELSE [off |-> o, c |-> c]
        o1 == PlusLine(sq.off)
        ql == SkipBreaks(o1, BufAt(buf, o1 - 1))
        qs == IF sq.nchar > 0 THEN FqQual(buf, ql.off, ql.c, <<>>, 0, trimmed5)
              ELSE [qual |-> <<>>, err |-> "none"]
        qual == trimEnd(qs.qual, trimmed3)
        err == IF qs.err # "none" THEN qs.err
               ELSE IF sq.nchar > 0 /\ Len(qual) < Len(patFw) THEN "tooFewQualities"
               ELSE IF sq.nchar > 0 /\ Len(qual) > Len(patFw) THEN "tooManyQualities"
               ELSE "none"
    IN [name |-> IF nm.name = <<>> THEN itoa10(readCnt) ELSE nm.name,
        patFw |-> patFw, qual |-> qual, err |-> err]

\* names of FASTQ records: r, "a b", "r " and the empty name
FqNames == {<<114>>, <<97, ChSP, 98>>, <<114, ChSP>>, <<>>}

\* the sequence, the rest of the '+' line and the qualities of FASTQ records:
\* an empty read, A with quality I, C. with qualities @+ and the name repeated
FqBodies ==
    {[seq |-> <<>>, plus |-> <<>>, qual |-> <<>>],
     [seq |-> <<65>>, plus |-> <<>>, qual |-> <<73>>],
     [seq |-> <<67, ChDot>>, plus |-> <<114>>, qual |-> <<ChAt, ChPlus>>]}

\* the four lines of a record
FqBytes(n, b) ==
    <<ChAt>> \o n \o <<ChNL>> \o b.seq \o <<ChNL, ChPlus>> \o b.plus \o <<ChNL>>
    \o b.qual \o <<ChNL>>

\* well-formed FASTQ files of at most n records, each line ended by a newline
RECURSIVE FqFiles(_)
FqFiles(n) ==
    IF n = 0 THEN {<<>>}
    ELSE FqFiles(n - 1) \cup
         {f \o FqBytes(nm, b) : f \in {g \in FqFiles(n - 1) : Len(g) > 0 \/ n = 1},
                                nm \in FqNames, b \in FqBodies}

\* pin: the file, the capacity of a batch and the trimming; the last newline
\* of the file may be missing
InitFq ==
    /\ ComposerUnused
    /\ ReaderUnused
    /\ LocksUnused
    /\ WorkersUnused
    /\ NoQueue
    /\ \E f \in FqFiles(MaxFqRecs) : \E nl \in BOOLEAN : \E B \in 1..MaxBuf :
       \E t5 \in 0..MaxTrim : \E t3 \in 0..MaxTrim :
          /\ nl \/ Len(f) > 0
          /\ pin = [f |-> IF nl THEN f ELSE SubSeq(f, 1, Len(f) - 1),
                    max_buf_ |-> B, trim5 |-> t5, trim3 |-> t3]
    /\ pst = [p |-> 0, first_ |-> TRUE, done |-> FALSE, readCnt_ |-> 0, thrown |-> FALSE]
    /\ pout = <<>>

\* a raw buffer that is not parsed yet
RawRead(buf) ==
    [raw |-> buf, parsed |-> FALSE, name |-> <<>>, patFw |-> <<>>, qual |-> <<>>,
     err |-> "none", cnt |-> 0, rdid |-> 0, seed |-> U32(0, 0, 0, 0), final |-> FALSE]

\* CFilePatternSource::nextBatchImpl on the only file of the source: one
\* call of nextBatchFromFile, readCnt_ += nread
FqNextBatch ==
    /\ ~pst.done
    /\ ~pst.thrown
    /\ LET r == FastqLightParse(pin.f, pin.max_buf_, [p |-> pst.p, first_ |-> pst.first_])
       IN /\ pst' = [p |-> r.st.p, first_ |-> r.st.first_, done |-> r.done,
                     readCnt_ |-> pst.readCnt_ + r.nread, thrown |-> r.thrown]
          /\ pout' = pout \o [i \in 1..Len(r.bufs) |-> RawRead(r.bufs[i])]
    /\ UNCHANGED pin

\* a thread parses and finalizes the k-th record read
FqParse(k) ==
    /\ ~pout[k].parsed
    /\ LET r == FastqParse(pout[k].raw, pin.trim5, pin.trim3, pst.readCnt_)
           ra == [pout[k] EXCEPT !.parsed = TRUE, !.name = r.name, !.patFw = r.patFw,
                                 !.qual = r.qual, !.err = r.err, !.cnt = pst.readCnt_]
       IN pout' = [pout EXCEPT ![k] = IF r.err = "none"
                                      THEN finalize(ra, k - 1, U32(0, 0, 0, 0))
                                      ELSE ra]
    /\ UNCHANGED <<pin, pst>>

NextFq ==
    \/ FqNextBatch /\ UNCHANGED <<qvars, cvars, rvars, wvars, lvars>>
    \/ \E k \in DOMAIN pout : FqParse(k) /\ UNCHANGED <<qvars, cvars, rvars, wvars, lvars>>

SpecFq == InitFq /\ [][NextFq]_vars

----------------------------------------------------------------------------
(* Claims about FASTQ parsing (SpecFq) *)

\* the lines of f: the bytes between newlines; the last line need not end
\* with a newline
RECURSIVE LinesOf(_, _, _)
LinesOf(f, i, line) ==
    IF i > Len(f) THEN (IF line = <<>> THEN <<>> ELSE <<line>>)
    ELSE IF f[i] = ChNL THEN <<line>> \o LinesOf(f, i + 1, <<>>)
    ELSE LinesOf(f, i + 1, Append(line, f[i]))

\* a single-pass 4-line FASTQ parser: line 1 without its '@' is the name,
\* line 2 the bases, line 4 the qualities
RefFastq(f) ==
    LET ls == LinesOf(f, 1, <<>>)
        n == (Len(ls) + 1) \div 4
        Line(j) == IF j <= Len(ls) THEN ls[j] ELSE <<>>
    IN [i \in 1..n |->
           [name |-> Tail(Line(4 * i - 3)),
            patFw |-> [j \in 1..Len(Line(4 * i - 2)) |->
                          asc2dna(IF Line(4 * i - 2)[j] = ChDot THEN ChN
                                  ELSE Line(4 * i - 2)[j])],
            qual |-> Line(4 * i)]]

\* s without the spaces at its end
RECURSIVE StripSpaces(_)
StripSpaces(s) ==
    IF s # <<>> /\ s[Len(s)] = ChSP THEN StripSpaces(SubSeq(s, 1, Len(s) - 1)) ELSE s

\* s without its first a and its last b elements
Trimmed(s, a, b) == trimEnd(SubSeq(s, IF a > Len(s) THEN Len(s) + 1 ELSE a + 1, Len(s)), b)

----------------------------------------------------------------------------
(* FASTA-continuous: light parsing and parsing of the bytes of one file (SpecFc) *)

\* the size of the circular buffer buf_
BufSize == 1024

\* the capacity of a batch that holds every window of the files followed
WholeBatch == 16

\* the longest window and the most bases from one window to the next
MaxWindow == 4
MaxFreq == 3

\* asc2dnacat[c]: 1 for A, C, G, T, 2 or more for the other IUPAC codes, 0 for
\* every other byte
asc2dnacat(c) ==
    IF c \in {65, 67, 71, 84, 97, 99, 103, 116} THEN 1
    ELSE IF c \in {66, 68, 72, 75, 77, 78, 82, 83, 86, 87, 89,
                   98, 100, 104, 107, 109, 110, 114, 115, 118, 119, 121} THEN 2
    ELSE 0

\* isspace(c) in the C locale
isspace(c) == c \in {ChSP, ChTab, ChNL, 11, 12, ChCR}

\* FastaContinuousPatternSource::nextBatchFromFile, the line of a '>': the
\* bytes up to the first space are the name; the byte that ends the loop is
\* read. The end of the file inside the line is not followed.
RECURSIVE FcHeader(_, _, _, _)
FcHeader(f, p, name, sawSpace) ==
    LET c == getc(f, p)
        saw == sawSpace \/ isspace(c)
    IN IF c \in {ChNL, ChCR} \/ c < 0 THEN [p |-> p + 1, name |-> name, c |-> c]
       ELSE FcHeader(f, p + 1, IF saw THEN name ELSE Append(name, c), saw)

\* a window that ends one byte before the byte written last
FcWindowBeforeLast(buf_, bufCur_, length_) ==
    [j \in 1..length_ |->
        LET i == j - 1
        IN IF length_ - i + 1 <= bufCur_
           THEN buf_[bufCur_ - 1 - (length_ - i)]
           ELSE buf_[bufCur_ - 1 - (length_ - i) + BufSize]]

\* the window installed as the sequence of a read: the last length_ bytes
\* written to the circular buffer
FcWindow(buf_, bufCur_, length_) ==
    [j \in 1..length_ |->
        LET i == j - 1
        IN IF length_ - i <= bufCur_
           THEN buf_[bufCur_ - (length_ - i)]
           ELSE buf_[bufCur_ - (length_ - i) + BufSize]]

\* FastaContinuousPatternSource::nextBatchFromFile, while(readi < pt.max_buf_):
\* s is the state of the source, s.p the bytes read of f, bufs the buffers filled
RECURSIVE FcLoop(_, _, _, _, _, _)
FcLoop(f, length_, freq_, max_buf, s, bufs) ==
    IF ~(Len(bufs) < max_buf) THEN [s |-> s, done |-> FALSE, bufs |-> bufs]
    ELSE
    LET c0 == getc(f, s.p)
        hd == FcHeader(f, s.p + 1, <<>>, FALSE)
        RECURSIVE SkipBreaks(_)
        SkipBreaks(p) ==
            IF getc(f, p) \in {ChNL, ChCR} THEN SkipBreaks(p + 1)
            ELSE [p |-> p + 1, c |-> getc(f, p)]
        nx == IF hd.c < 0 THEN [p |-> hd.p, c |-> hd.c] ELSE SkipBreaks(hd.p)
        \* resetForNextFile() and the name of the record
        s1 == IF c0 = ChGt
              THEN [s EXCEPT !.p = nx.p, !.eat_ = length_ - 1, !.beginning_ = TRUE,
                             !.bufCur_ = 0, !.subReadCnt_ = s.readCnt_,
                             !.name_prefix_buf_ =
                                 IF nx.c < 0 THEN hd.name ELSE Append(hd.name, ChUnderscore)]
              ELSE [s EXCEPT !.p = @ + 1]
        c1 == IF c0 = ChGt THEN nx.c ELSE c0
        cat == asc2dnacat(c1)
        c == IF cat >= 2 THEN ChN ELSE c1
        cur == IF s1.bufCur_ + 1 = BufSize THEN 0 ELSE s1.bufCur_ + 1
        s2 == [s1 EXCEPT !.buf_ = [@ EXCEPT ![s1.bufCur_] = c], !.bufCur_ = cur]
    IN IF c0 < 0 THEN [s |-> s, done |-> TRUE, bufs |-> bufs]
       ELSE IF c1 < 0 THEN [s |-> [s1 EXCEPT !.p = Len(f)], done |-> TRUE, bufs |-> bufs]
       ELSE IF cat = 0 THEN FcLoop(f, length_, freq_, max_buf, s1, bufs)
       ELSE IF s2.eat_ > 0
       THEN FcLoop(f, length_, freq_, max_buf,
                   [s2 EXCEPT !.eat_ = @ - 1,
                              !.readCnt_ = IF s2.beginning_ THEN @ ELSE @ + 1],
                   bufs)
       ELSE FcLoop(f, length_, freq_, max_buf,
                   [s2 EXCEPT !.eat_ = freq_ - 1, !.readCnt_ = @ + 1,
                              !.beginning_ = FALSE],
                   Append(bufs, s2.name_prefix_buf_
                                \o itoa10(s2.readCnt_ - s2.subReadCnt_)
                                \o <<ChTab>>
                                \o FcWindow(s2.buf_, s2.bufCur_, length_)))

\* FastaContinuousPatternSource::parse, the loop of the sequence, which ends
\* when off reaches the length of the buffer
RECURSIVE FcSeq(_, _, _, _, _, _)
FcSeq(buf, off, c, patFw, nchar, trim5) ==
    IF ~(off < Len(buf)) THEN patFw
    ELSE FcSeq(buf, off + 1, BufAt(buf, off),
               IF isalpha(c) /\ nchar >= trim5 THEN Append(patFw, asc2dna(c)) ELSE patFw,
               IF isalpha(c) THEN nchar + 1 ELSE nchar, trim5)

\* FastaContinuousPatternSource::parse of one buffer
FastaContParse(buf, trim5, trim3) ==
    LET RECURSIVE Name(_, _, _)
        Name(off, c, name) ==
            IF c # ChTab /\ off < Len(buf) THEN Name(off + 1, BufAt(buf, off), Append(name, c))
            ELSE [name |-> name, off |-> off]
        nm == Name(1, BufAt(buf, 0), <<>>)
        patFw == trimEnd(FcSeq(buf, nm.off + 1, BufAt(buf, nm.off), <<>>, 0, trim5), trim3)
    IN IF nm.off >= Len(buf)
       THEN [ok |-> FALSE, name |-> nm.name, patFw |-> <<>>, qual |-> <<>>]
       ELSE [ok |-> TRUE, name |-> nm.name, patFw |-> patFw,
             qual |-> [i \in 1..Len(patFw) |-> 73]]

\* the lines of bases of the files: ACGTACGTAC, the same broken into two
\* lines, bases among bytes that are no bases or that stand for several
\* bases, fewer bases than a window, none
FcBodies ==
    {<<65, 67, 71, 84, 65, 67, 71, 84, 65, 67>>,
     <<65, 67, 71, 84, 65, ChNL, 67, 71, 84, 65, 67>>,
     <<65, 49, 67, ChSP, 71, 82, 84, 65, 67>>,
     <<65, 67, 71>>,
     <<>>}

\* a FASTA file of one record: the name s, or s followed by a comment
FcFiles ==
    {<<ChGt>> \o h \o <<ChNL>> \o b \o e :
        h \in {<<115>>, <<115, ChSP, 120>>}, b \in FcBodies, e \in {<<>>, <<ChNL>>}}

\* pin: the file, the capacity of a batch, the length of a window and the
\* count of bases from one window to the next
InitFc ==
    /\ ComposerUnused
    /\ ReaderUnused
    /\ LocksUnused
    /\ WorkersUnused
    /\ NoQueue
    /\ \E f \in FcFiles : \E B \in (1..MaxBuf) \cup {WholeBatch} :
       \E l \in 2..MaxWindow : \E fr \in 1..MaxFreq :
          /\ pin = [f |-> f, max_buf_ |-> B, length_ |-> l, freq_ |-> fr]
          /\ pst = [p |-> 0, done |-> FALSE, name_prefix_buf_ |-> <<>>,
                    buf_ |-> [i \in 0..(BufSize - 1) |-> 0], bufCur_ |-> 0,
                    eat_ |-> l - 1, beginning_ |-> TRUE,
                    readCnt_ |-> 0, subReadCnt_ |-> 0]
    /\ pout = <<>>

\* CFilePatternSource::nextBatchImpl on the only file of the source:
\* pt.setReadId(readCnt_), one call of nextBatchFromFile, readCnt_ += nread;
\* prior is the count of reads of the earlier calls
FcNextBatch ==
    /\ ~pst.done
    /\ LET r == FcLoop(pin.f, pin.length_, pin.freq_, pin.max_buf_, pst, <<>>)
       IN /\ pst' = [r.s EXCEPT !.done = r.done, !.readCnt_ = @ + Len(r.bufs)]
          /\ pout' = pout \o [i \in 1..Len(r.bufs) |->
                                 [raw |-> r.bufs[i], rdid |-> pst.readCnt_ + i - 1,
                                  prior |-> Len(pout), parsed |-> FALSE,
                                  ok |-> FALSE, name |-> <<>>, patFw |-> <<>>,
                                  qual |-> <<>>]]
    /\ UNCHANGED pin

\* a thread parses the k-th read; the reads are parsed in their order
FcParse(k) ==
    /\ ~pout[k].parsed
    /\ \A j \in 1..(k - 1) : pout[j].parsed
    /\ LET r == FastaContParse(pout[k].raw, 0, 0)
       IN pout' = [pout EXCEPT ![k] = [@ EXCEPT !.parsed = TRUE, !.ok = r.ok,
                                                !.name = r.name, !.patFw = r.patFw,
                                                !.qual = r.qual]]
    /\ UNCHANGED <<pin, pst>>

NextFc ==
    \/ FcNextBatch /\ UNCHANGED <<qvars, cvars, rvars, wvars, lvars>>
    \/ \E k \in DOMAIN pout : FcParse(k) /\ UNCHANGED <<qvars, cvars, rvars, wvars, lvars>>

SpecFc == InitFc /\ [][NextFc]_vars

----------------------------------------------------------------------------
(* Claims about FASTA-continuous parsing (SpecFc) *)

\* the bytes of a raw buffer before its tab (the name) and after it (the window)
RECURSIVE TabAt(_, _)
TabAt(raw, i) == IF i > Len(raw) \/ raw[i] = ChTab THEN i ELSE TabAt(raw, i + 1)

RawName(raw) == SubSeq(raw, 1, TabAt(raw, 1) - 1)

RawBases(raw) == SubSeq(raw, TabAt(raw, 1) + 1, Len(raw))

\* the input of the example: the record s with the bases ACGTACGTAC, windows
\* of 4 bases, one every 2 bases
ExampleInput ==
    /\ pin.f \in {<<ChGt, 115, ChNL>> \o <<65, 67, 71, 84, 65, 67, 71, 84, 65, 67>> \o e :
                     e \in {<<>>, <<ChNL>>}}
    /\ pin.length_ = 4
    /\ pin.freq_ = 2

RECURSIVE AfterLine(_, _)
AfterLine(f, i) ==
    IF i > Len(f) THEN <<>>
    ELSE IF f[i] = ChNL THEN SubSeq(f, i + 1, Len(f)) ELSE AfterLine(f, i + 1)

\* the name of the record of f: the bytes after '>' up to the first space
RECURSIVE RecordName(_, _)
RecordName(f, i) ==
    IF i > Len(f) \/ isspace(f[i]) THEN <<>> ELSE <<f[i]>> \o RecordName(f, i + 1)

\* the valid bases b0 b1 ... among the bytes s: the DNA bytes, and N for
\* every other IUPAC code
RECURSIVE ValidBases(_)
ValidBases(s) ==
    IF s = <<>> THEN <<>>
    ELSE (IF asc2dnacat(Head(s)) = 0 THEN <<>>
          ELSE IF asc2dnacat(Head(s)) >= 2 THEN <<ChN>> ELSE <<Head(s)>>)
         \o ValidBases(Tail(s))

\* the count of windows of length L, one every F bases, in n bases
WindowCount(n, L, F) == IF n < L THEN 0 ELSE ((n - L) \div F) + 1

\* C28: the k-th emitted read (k >= 0) consists of the L valid bases ending at
\* position L-1+k*F and is named <record-name>_<k*F>, bytes that are neither
\* DNA nor IUPAC codes not counted as positions, for every batch capacity
C28_WindowEveryStrideNamedByOffset ==
    LET b == ValidBases(AfterLine(pin.f, 1))
        L == pin.length_
        F == pin.freq_
    IN /\ Len(pout) <= WindowCount(Len(b), L, F)
       /\ pst.done => Len(pout) = WindowCount(Len(b), L, F)
       /\ \A j \in DOMAIN pout :
             LET k == j - 1
             IN /\ RawBases(pout[j].raw) = SubSeq(b, k * F + 1, k * F + L)
                /\ RawName(pout[j].raw) =
                      RecordName(pin.f, 2) \o <<ChUnderscore>> \o itoa10(k * F)

----------------------------------------------------------------------------
(* Claims about CFilePatternSource::nextBatch and the cursor cur_ (Spec) *)

\* what is left to read of the files of s: the rest of the open file and the
\* files not opened yet that can be opened
RECURSIVE LeftFrom(_, _)
LeftFrom(s, j) ==
    IF j > Len(s.infiles_) THEN 0
    ELSE (IF s.infiles_[j].ok THEN s.infiles_[j].n ELSE 0) + LeftFrom(s, j + 1)

Unread(s) == (CurFile(s).n - s.pos) + LeftFrom(s, s.filecur_ + 1)

\* C26: in every state and for every source that reads files, the call
\* nextBatch, when it returns, returns count 0 only with done set, every file opened and
\* nothing left to read; a call that finds nothing left in the open file goes
\* on to the next files within the same call, and the records of a non-zero
\* count are those of the first file, from the open one on, with something left
C26_ZeroCountOnlyWhenAllFilesExhausted ==
    \A s \in Sources :
        (s.format \in FileFormats /\ ~s.exit_) =>
            LET r == CFileNextBatchImpl(s, max_buf_)
            IN ~r.s.exit_ =>
               /\ r.n = 0 => (r.done /\ r.s.filecur_ = Len(s.infiles_) /\ Unread(r.s) = 0)
               /\ s.format # "FASTA_CONT" => (r.n = 0 <=> Unread(s) = 0)
               /\ r.n > 0 =>
                    /\ \A i \in 1..r.n : r.recs[i].file = r.recs[1].file
                    /\ r.recs[1].file >= s.fp_
                    /\ r.recs[1].file > s.fp_ =>
                          /\ s.pos = CurFile(s).n
                          /\ \A j \in (s.fp_ + 2)..r.recs[1].file :
                                 s.infiles_[j].n = 0 \/ ~s.infiles_[j].ok

\* a source whose open file is read to its end, with records in its second
\* file: the call opens the second file and returns records of it
C26_Witness ==
    \E s \in Sources :
        /\ s.format \in FileFormats
        /\ Len(s.infiles_) = 2
        /\ s.fp_ = 0
        /\ s.pos > 0
        /\ s.pos = CurFile(s).n
        /\ CFileNextBatchImpl(s, max_buf_).n > 0
        /\ CFileNextBatchImpl(s, max_buf_).recs[1].file = 1

\* the records of slot i (from 1) of the composer: those of its source and,
\* in a paired slot, of the source of the mates
SlotRecords(i) ==
    AllRecords(srca_[i]) \cup
    (IF srcb_[i] # NullSource THEN AllRecords(srcb_[i]) ELSE {})

\* C27: the cursor cur_ never exceeds the number of slots and no thread is
\* ahead of it; a step changes cur_ by one at most, only upwards, is taken by a
\* thread that saw the slot at cur_ return no record, and leaves behind a slot
\* of which every record has been dispensed; a thread that saw an earlier slot
\* return no record takes the value of cur_ and leaves cur_ as it is
C27_CursorAdvancesOncePerExhaustedSlot ==
    /\ [](cur_ <= Len(srca_) /\ \A t \in Threads : th[t].cur <= cur_)
    /\ [][/\ cur_' \in {cur_, cur_ + 1}
          /\ cur_' = cur_ + 1 =>
                /\ \E t \in Threads :
                      th[t].pc = "adv" /\ th[t].cur = cur_ /\ th'[t].cur = cur_'
                /\ \A r \in SlotRecords(cur_ + 1) : ndisp[r] >= 1
          /\ \A t \in Threads :
                (th[t].pc = "adv" /\ th'[t].pc = "top" /\ th[t].cur < cur_) =>
                    (cur_' = cur_ /\ th'[t].cur = cur_)]_vars

\* a thread has seen slot 0 return no record and is about to advance, while
\* another thread has advanced cur_ past that slot already
C27_Witness ==
    /\ Len(srca_) = 2
    /\ cur_ = 1
    /\ \E t \in Threads : th[t].pc = "adv" /\ th[t].cur = 0

----------------------------------------------------------------------------
(* Tabbed and Raw: light parsing of the bytes of one file (SpecLn) *)

\* the most lines of a file
MaxLines == 3

\* while(c >= 0 && (c == '\n' || c == '\r')) c = getc_wrapper(), entered with
\* the byte c read and p bytes of f read
RECURSIVE LnSkip(_, _, _)
LnSkip(f, p, c) ==
    IF c >= 0 /\ c \in {ChNL, ChCR}
    THEN LnSkip(f, IF getc(f, p) < 0 THEN p ELSE p + 1, getc(f, p))
    ELSE [p |-> p, c |-> c]

\* while(c >= 0 && c != '\n' && c != '\r') { readOrigBuf.append(c); c = getc_wrapper(); }
RECURSIVE LnLine(_, _, _, _)
LnLine(f, p, c, buf) ==
    IF c >= 0 /\ c \notin {ChNL, ChCR}
    THEN LnLine(f, IF getc(f, p) < 0 THEN p ELSE p + 1, getc(f, p), Append(buf, c))
    ELSE [p |-> p, c |-> c, buf |-> buf]

\* for(; readi < pt.max_buf_ && c >= 0; readi++): a line, then the line breaks
\* after it
RECURSIVE LnLoop(_, _, _, _, _)
LnLoop(f, max_buf, p, c, bufs) ==
    IF ~(Len(bufs) < max_buf /\ c >= 0) THEN [p |-> p, c |-> c, bufs |-> bufs]
    ELSE LET l == LnLine(f, p, c, <<>>)
             k == LnSkip(f, l.p, l.c)
         IN LnLoop(f, max_buf, k.p, k.c, Append(bufs, l.buf))

\* the first getc_wrapper() of a call and the loop that skips line breaks
LnStart(f, p) == LnSkip(f, IF getc(f, p) < 0 THEN p ELSE p + 1, getc(f, p))

\* Raw light parsing that does not push back the byte read ahead
RawLightParseWithoutUngetc(f, max_buf, p) ==
    LET s == LnStart(f, p)
        r == LnLoop(f, max_buf, s.p, s.c, <<>>)
    IN [p |-> r.p, done |-> r.c < 0, bufs |-> r.bufs]

\* TabbedPatternSource::nextBatchFromFile of a file f of which p bytes are read
TabbedLightParse(f, max_buf, p) ==
    LET s == LnStart(f, p)
        r == LnLoop(f, max_buf, s.p, s.c, <<>>)
    IN [p |-> r.p, done |-> r.c < 0, bufs |-> r.bufs]

\* ungetc_wrapper(c): the byte read last is the next byte read
ungetc(p) == p - 1

\* RawPatternSource::nextBatchFromFile of a file f of which p bytes are read
RawLightParse(f, max_buf, p) ==
    LET s == LnStart(f, p)
        r == LnLoop(f, max_buf, s.p, s.c, <<>>)
    IN [p |-> IF r.c >= 0 /\ r.c \notin {ChNL, ChCR} THEN ungetc(r.p) ELSE r.p,
        done |-> r.c < 0, bufs |-> r.bufs]

\* the lines of the files: Tabbed records (name, sequence, qualities) and Raw
\* records (a sequence)
LnLines(format) ==
    IF format = "TABBED"
    THEN {<<114, ChTab, 65, ChTab, 73>>, <<115, ChTab, 67, 65, ChTab, 73, 73>>}
    ELSE {<<65>>, <<67, 65>>}

\* the line breaks between two lines: \n, \r\n, or \n and an empty line
LnBreaks == {<<ChNL>>, <<ChCR, ChNL>>, <<ChNL, ChNL>>}

\* files of at most n lines, without the break after the last line
RECURSIVE LnFiles(_, _)
LnFiles(format, n) ==
    IF n = 0 THEN {<<>>}
    ELSE LnFiles(format, n - 1) \cup
         {IF f = <<>> THEN l ELSE f \o b \o l :
             f \in {g \in LnFiles(format, n - 1) : g # <<>> \/ n = 1},
             l \in LnLines(format), b \in LnBreaks}

\* pin: the format, the file (which may start with an empty line and may end
\* without a line break) and the capacity of a batch
InitLn ==
    /\ ComposerUnused
    /\ ReaderUnused
    /\ LocksUnused
    /\ WorkersUnused
    /\ NoQueue
    /\ \E fm \in {"TABBED", "RAW"} : \E f \in LnFiles(fm, MaxLines) :
       \E lead \in {<<>>, <<ChNL>>} : \E end \in {<<>>, <<ChNL>>} :
       \E B \in 1..MaxBuf :
          pin = [format |-> fm, f |-> lead \o f \o end, max_buf_ |-> B]
    /\ pst = [p |-> 0, done |-> FALSE, readCnt_ |-> 0, calls |-> 0]
    /\ pout = <<>>

\* CFilePatternSource::nextBatchImpl on the only file of the source: one call
\* of nextBatchFromFile, readCnt_ += nread
LnNextBatch ==
    /\ ~pst.done
    /\ LET r == IF pin.format = "TABBED"
                THEN TabbedLightParse(pin.f, pin.max_buf_, pst.p)
                ELSE RawLightParse(pin.f, pin.max_buf_, pst.p)
       IN /\ pst' = [p |-> r.p, done |-> r.done,
                     readCnt_ |-> pst.readCnt_ + Len(r.bufs), calls |-> pst.calls + 1]
          /\ pout' = pout \o r.bufs
    /\ UNCHANGED pin

NextLn ==
    \/ LnNextBatch /\ UNCHANGED <<qvars, cvars, rvars, wvars, lvars>>

SpecLn == InitLn /\ [][NextLn]_vars

----------------------------------------------------------------------------
(* Claims about Tabbed and Raw light parsing (SpecLn) *)

\* the non-empty lines of f: the runs of bytes that are no line breaks
RECURSIVE NonEmptyLines(_, _, _)
NonEmptyLines(f, i, line) ==
    IF i > Len(f) THEN (IF line = <<>> THEN <<>> ELSE <<line>>)
    ELSE IF f[i] \in {ChNL, ChCR}
    THEN (IF line = <<>> THEN <<>> ELSE <<line>>) \o NonEmptyLines(f, i + 1, <<>>)
    ELSE NonEmptyLines(f, i + 1, Append(line, f[i]))

\* the raw buffers filled so far are the first non-empty lines of the file,
\* and all of them once the end of the file is reported
BuffersAreLines ==
    LET ls == NonEmptyLines(pin.f, 1, <<>>)
    IN /\ Len(pout) <= Len(ls)
       /\ pout = SubSeq(ls, 1, Len(pout))
       /\ pst.done => pout = ls

\* C29: for Tabbed input and every batch capacity, the raw buffers filled by
\* successive light-parse calls are, in order, exactly the non-empty lines of
\* the file, byte for byte
C29_TabbedBuffersAreTheLines == pin.format = "TABBED" => BuffersAreLines

\* C30: for Raw input and every batch capacity, the raw buffers filled by
\* successive light-parse calls are, in order, exactly the non-empty lines of
\* the file, byte for byte: the byte read ahead at the end of a full batch is
\* pushed back and is the first byte of the next buffer
C30_RawBuffersAreTheLines ==
    pin.format = "RAW" =>
        /\ BuffersAreLines
        /\ (~pst.done /\ pst.calls > 0) =>
              /\ Len(pout) = pst.calls * pin.max_buf_
              /\ Len(pout) < Len(NonEmptyLines(pin.f, 1, <<>>))
              /\ pst.p < Len(pin.f)
              /\ pin.f[pst.p + 1] = NonEmptyLines(pin.f, 1, <<>>)[Len(pout) + 1][1]

\* a Raw file of three lines read to its end in batches of one line
C30_Witness ==
    /\ pin.format = "RAW"
    /\ pin.max_buf_ = 1
    /\ pst.done
    /\ Len(pout) = 3
    /\ pst.calls >= 3

----------------------------------------------------------------------------
(* FASTQ: reads taken in blocks and interleaved mates (SpecFm) *)

\* the most complete records of a file
MaxFmRecs == 4

\* the most reads of a block (pp_.reads_per_block)
MaxPerBlock == 2

\* the most bytes that a failing fread delivers
MaxErrBytes == 1

\* the last call of fread that may fail
MaxErrCall == 2

\* fread(buf, 1, n, fp_) of a file f of which p bytes are read: the bytes
\* delivered, fewer than n at the end of the file
fread(f, p, n) == SubSeq(f, p + 1, IF p + n > Len(f) THEN Len(f) ELSE p + n)

\* for(; i < ret; i++) if(buf[i] == '\n') nl++
RECURSIVE CountNewlines(_, _)
CountNewlines(buf, i) ==
    IF i > Len(buf) THEN 0
    ELSE (IF buf[i] = ChNL THEN 1 ELSE 0) + CountNewlines(buf, i + 1)

\* a block reader that takes every record to end with a newline
FastqBlockReadStrict(f, p, reads_per_block, block_bytes, ferror, errBytes) ==
    LET all == fread(f, p, block_bytes)
        buf == IF ferror
               THEN SubSeq(all, 1, IF errBytes < Len(all) THEN errBytes ELSE 0)
               ELSE all
        ret == Len(buf)
    IN IF ret # block_bytes
       THEN IF ferror
            THEN [p |-> p + ret, done |-> FALSE, nread |-> 0, buf |-> buf, thrown |-> TRUE]
            ELSE [p |-> p + ret, done |-> TRUE,
                  nread |-> CountNewlines(buf, 1) \div 4,
                  buf |-> buf, thrown |-> FALSE]
       ELSE [p |-> p + ret, done |-> FALSE, nread |-> reads_per_block, buf |-> buf,
             thrown |-> FALSE]

\* FastqPatternSource::nextBatchFromFile with pp_.reads_per_block > 0 and
\* use_fread: one fread of block_bytes into readOrigBuf of the first read; a
\* failing fread (ferror) delivers at most errBytes bytes
FastqBlockRead(f, p, reads_per_block, block_bytes, ferror, errBytes) ==
    LET all == fread(f, p, block_bytes)
        buf == IF ferror
               THEN SubSeq(all, 1, IF errBytes < Len(all) THEN errBytes ELSE 0)
               ELSE all
        ret == Len(buf)
    IN IF ret # block_bytes
       THEN IF ferror
            THEN [p |-> p + ret, done |-> FALSE, nread |-> 0, buf |-> buf, thrown |-> TRUE]
            ELSE [p |-> p + ret, done |-> TRUE,
                  nread |-> (CountNewlines(buf, 1) + 1) \div 4,
                  buf |-> buf, thrown |-> FALSE]
       ELSE [p |-> p + ret, done |-> FALSE, nread |-> reads_per_block, buf |-> buf,
             thrown |-> FALSE]

\* FastqPatternSource::nextBatchFromFile with interleaved_, while(readi <
\* pt.max_buf_ && !done): s.bufa and s.bufb are the readOrigBuf of the slots of
\* pt.bufa_ and pt.bufb_, s.batch_a tells which of them readbuf is
RECURSIVE FqLoopInterleaved(_, _, _)
FqLoopInterleaved(f, max_buf, s) ==
    IF ~(s.readi < max_buf /\ ~s.done) THEN s
    ELSE LET readbuf == IF s.batch_a THEN s.bufa ELSE s.bufb
             r == FqRecord(f, [p |-> s.p, buf |-> readbuf[s.readi + 1], newlines |-> 4,
                               done |-> FALSE, aborted |-> FALSE, c |-> EOF,
                               brk |-> FALSE])
             batch_a == IF r.c > 0 THEN ~s.batch_a ELSE s.batch_a
         IN FqLoopInterleaved(f, max_buf,
               [p |-> r.p, done |-> r.done, aborted |-> r.aborted,
                readi |-> IF r.c > 0 /\ batch_a THEN s.readi + 1 ELSE s.readi,
                batch_a |-> batch_a,
                bufa |-> IF s.batch_a THEN [s.bufa EXCEPT ![s.readi + 1] = r.buf]
                         ELSE s.bufa,
                bufb |-> IF s.batch_a THEN s.bufb
                         ELSE [s.bufb EXCEPT ![s.readi + 1] = r.buf]])

\* FastqPatternSource::nextBatchFromFile(pt, batch_a) with interleaved_ and
\* without blocks, of a file f of which st.p bytes are read; the buffers of
\* pt are empty when the call starts; readi-- on 0 wraps and is returned as
\* the int -1
FastqInterleavedParse(f, max_buf, st, batch_a) ==
    LET c0 == getc(f, st.p)
        RECURSIVE SkipBlank(_)
        SkipBlank(p) == IF getc(f, p) \in {ChCR, ChNL} THEN SkipBlank(p + 1) ELSE p
        p0 == SkipBlank(st.p)
        c1 == getc(f, p0)
        empty == [i \in 1..max_buf |-> <<>>]
        at == [empty EXCEPT ![1] = <<ChAt>>]
        s == FqLoopInterleaved(f, max_buf,
                [p |-> IF st.first_ THEN p0 + 1 ELSE st.p,
                 done |-> FALSE, aborted |-> FALSE, readi |-> 0, batch_a |-> batch_a,
                 bufa |-> IF st.first_ /\ batch_a THEN at ELSE empty,
                 bufb |-> IF st.first_ /\ ~batch_a THEN at ELSE empty])
    IN IF st.first_ /\ c0 = EOF
       THEN [st |-> st, done |-> TRUE, nread |-> 0, bufa |-> empty, bufb |-> empty,
             thrown |-> FALSE]
       ELSE IF st.first_ /\ c1 # ChAt
       THEN [st |-> [st EXCEPT !.p = IF c1 = EOF THEN p0 ELSE p0 + 1], done |-> FALSE,
             nread |-> 0, bufa |-> empty, bufb |-> empty, thrown |-> TRUE]
       ELSE [st |-> [st EXCEPT !.p = s.p, !.first_ = FALSE], done |-> s.done,
             nread |-> IF s.aborted THEN s.readi - 1 ELSE s.readi,
             bufa |-> s.bufa, bufb |-> s.bufb, thrown |-> FALSE]

\* complete records in the files: r/A/I, s/C/J and a record of four empty lines
FmRecSet ==
    {FqBytes(<<114>>, [seq |-> <<65>>, plus |-> <<>>, qual |-> <<73>>]),
     FqBytes(<<115>>, [seq |-> <<67>>, plus |-> <<>>, qual |-> <<74>>]),
     FqBytes(<<>>, [seq |-> <<>>, plus |-> <<>>, qual |-> <<>>])}

\* what follows the last complete record: nothing, or a record that the end
\* of the file cuts off in its first, second or third line
FmParts ==
    {<<>>, <<ChAt>>, <<ChAt, 116, ChNL, 71>>, <<ChAt, 116, ChNL, 71, ChNL, ChPlus>>}

\* sequences of at most n complete records
RECURSIVE FmRecSeqs(_)
FmRecSeqs(n) ==
    IF n = 0 THEN {<<>>}
    ELSE FmRecSeqs(n - 1) \cup
         {Append(rs, r) : rs \in {g \in FmRecSeqs(n - 1) : Len(g) = n - 1}, r \in FmRecSet}

\* the bytes of the first j records of recs
RECURSIVE FmConcat(_, _)
FmConcat(recs, j) == IF j = 0 THEN <<>> ELSE FmConcat(recs, j - 1) \o recs[j]

\* pin: the mode, the file, the complete records recs and the cut-off record
\* part it is made of, the capacity of a batch, the reads and bytes of a
\* block, the call of fread that fails (0: none)
InitFm ==
    /\ ComposerUnused
    /\ ReaderUnused
    /\ LocksUnused
    /\ WorkersUnused
    /\ NoQueue
    /\ \E recs \in FmRecSeqs(MaxFmRecs) : \E part \in FmParts : \E nl \in BOOLEAN :
       \E mode \in {"plain", "interleaved", "block"} :
       \E B \in 1..MaxBuf : \E rpb \in 1..MaxPerBlock :
       \E ec \in 0..MaxErrCall : \E eb \in 0..MaxErrBytes :
          /\ nl \/ (recs # <<>> /\ part = <<>>)
          /\ mode = "block" \/ (rpb = 1 /\ ec = 0)
          /\ mode # "block" \/ B = 1
          /\ ec # 0 \/ eb = 0
          /\ LET all == FmConcat(recs, Len(recs)) \o part
             IN pin = [mode |-> mode,
                       f |-> IF nl THEN all ELSE SubSeq(all, 1, Len(all) - 1),
                       recs |-> recs, part |-> part, max_buf_ |-> B,
                       reads_per_block |-> rpb,
                       block_bytes |-> rpb * (IF recs = <<>> THEN 1 ELSE Len(recs[1])),
                       errCall |-> ec, errBytes |-> eb]
    /\ pst = [p |-> 0, first_ |-> TRUE, done |-> FALSE, readCnt_ |-> 0, thrown |-> FALSE,
              calls |-> 0]
    /\ pout = <<>>

\* CFilePatternSource::nextBatchImpl on the only file of the source, without
\* blocks and without interleaving: one call of nextBatchFromFile, readCnt_
\* += nread
FmPlainBatch ==
    /\ pin.mode = "plain"
    /\ ~pst.done
    /\ ~pst.thrown
    /\ LET r == FastqLightParse(pin.f, pin.max_buf_, [p |-> pst.p, first_ |-> pst.first_])
       IN /\ pst' = [p |-> r.st.p, first_ |-> r.st.first_, done |-> r.done,
                     readCnt_ |-> pst.readCnt_ + r.nread, thrown |-> r.thrown,
                     calls |-> pst.calls + 1]
          /\ pout' = Append(pout, [p0 |-> pst.p, done |-> r.done, nread |-> r.nread,
                                   bufa |-> r.bufs, bufb |-> <<>>, thrown |-> r.thrown])
    /\ UNCHANGED pin

\* CFilePatternSource::nextBatchImpl(pt, true) on the only file of an
\* interleaved source
FmInterleavedBatch ==
    /\ pin.mode = "interleaved"
    /\ ~pst.done
    /\ ~pst.thrown
    /\ LET r == FastqInterleavedParse(pin.f, pin.max_buf_,
                                      [p |-> pst.p, first_ |-> pst.first_], TRUE)
       IN /\ pst' = [p |-> r.st.p, first_ |-> r.st.first_, done |-> r.done,
                     readCnt_ |-> pst.readCnt_ + r.nread, thrown |-> r.thrown,
                     calls |-> pst.calls + 1]
          /\ pout' = Append(pout, [p0 |-> pst.p, done |-> r.done, nread |-> r.nread,
                                   bufa |-> r.bufa, bufb |-> r.bufb, thrown |-> r.thrown])
    /\ UNCHANGED pin

\* CFilePatternSource::nextBatchImpl on the only file of a source read in
\* blocks
FmBlockBatch ==
    /\ pin.mode = "block"
    /\ ~pst.done
    /\ ~pst.thrown
    /\ LET r == FastqBlockRead(pin.f, pst.p, pin.reads_per_block, pin.block_bytes,
                               pin.errCall = pst.calls + 1, pin.errBytes)
       IN /\ pst' = [p |-> r.p, first_ |-> pst.first_, done |-> r.done,
                     readCnt_ |-> pst.readCnt_ + r.nread, thrown |-> r.thrown,
                     calls |-> pst.calls + 1]
          /\ pout' = Append(pout, [p0 |-> pst.p, done |-> r.done, nread |-> r.nread,
                                   bufa |-> <<r.buf>>, bufb |-> <<>>, thrown |-> r.thrown])
    /\ UNCHANGED pin

NextFm ==
    \/ FmPlainBatch /\ UNCHANGED <<qvars, cvars, rvars, wvars, lvars>>
    \/ FmInterleavedBatch /\ UNCHANGED <<qvars, cvars, rvars, wvars, lvars>>
    \/ FmBlockBatch /\ UNCHANGED <<qvars, cvars, rvars, wvars, lvars>>

SpecFm == InitFm /\ [][NextFm]_vars

----------------------------------------------------------------------------
(* Claims about FASTQ blocks and interleaved mates (SpecFm) *)

\* the offset in the file of the end of the j-th complete record
FmBoundary(j) == Len(FmConcat(pin.recs, j))

\* the number of complete records that lie before offset p, when p is the
\* end of one of them
FmRecsAt(p) == {j \in 0..Len(pin.recs) : FmBoundary(j) = p}

\* C31: in block mode a full block yields count = reads_per_block and not
\* done; a short final block yields done and count = (newlines + 1) div 4,
\* which is the number n of complete records it holds, whether or not the
\* last of them ends with a newline; a read error is fatal
C31_BlockCounts ==
    pin.mode = "block" =>
       \A k \in DOMAIN pout :
          LET e == pout[k]
              rest == SubSeq(pin.f, e.p0 + 1, Len(pin.f))
          IN /\ (pin.errCall # k /\ Len(rest) >= pin.block_bytes) =>
                   (e.nread = pin.reads_per_block /\ ~e.done /\ ~e.thrown)
             /\ (pin.errCall # k /\ Len(rest) < pin.block_bytes) =>
                   /\ e.done /\ ~e.thrown
                   /\ e.nread = (CountNewlines(rest, 1) + 1) \div 4
                   /\ pin.part = <<>> =>
                         \A j \in FmRecsAt(e.p0) : e.nread = Len(pin.recs) - j
             /\ pin.errCall = k => (e.thrown /\ pst.thrown /\ k = Len(pout))

\* three records of equal length without the last newline, read in blocks
\* of two: a full block, then a short block of one record
C31_Witness ==
    /\ pin.mode = "block"
    /\ pin.reads_per_block = 2
    /\ Len(pin.recs) = 3
    /\ pin.part = <<>>
    /\ pin.f[Len(pin.f)] # ChNL
    /\ Len(pout) = 2
    /\ pout[1].nread = 2 /\ ~pout[1].done
    /\ pout[2].nread = 1 /\ pout[2].done
    /\ FmRecsAt(pout[2].p0) = {2}

\* the smaller of two numbers
FmMin(a, b) == IF a < b THEN a ELSE b

\* C32: in interleaved mode the records 2k and 2k+1 of the file (counting
\* from 0) are stored in slot k of the mate-1 buffer and slot k of the mate-2
\* buffer, across batch boundaries too, and the count returned is the number
\* of complete pairs stored in this call
C32_InterleavedPairsInSlots ==
    pin.mode = "interleaved" =>
       \A k \in DOMAIN pout :
          \A j \in FmRecsAt(pout[k].p0) :
             LET pairs == FmMin(pin.max_buf_, (Len(pin.recs) - j) \div 2)
             IN /\ j % 2 = 0
                /\ pout[k].nread = pairs
                /\ \A i \in 1..pairs :
                      /\ pout[k].bufa[i] = pin.recs[j + 2 * i - 1]
                      /\ pout[k].bufb[i] = pin.recs[j + 2 * i]

\* C34: without blocks and without interleaving the light parser returns the
\* number of complete 4-line records it stored in this call: a last record
\* cut off by the end of the file is not counted and does not reduce the
\* count of the complete records before it, and the count is never negative
C34_CountIsCompleteRecordsStored ==
    pin.mode = "plain" =>
       \A k \in DOMAIN pout :
          /\ pout[k].nread >= 0
          /\ \A j \in FmRecsAt(pout[k].p0) :
                pout[k].nread = FmMin(pin.max_buf_, Len(pin.recs) - j)

----------------------------------------------------------------------------
(* The runs of Spec over mixed input lists (SpecC) *)

\* an input list: none, one file, or two files; every file holds n records
MixList(n) == {<<>>, <<File(n)>>, <<File(n), File(n)>>}

\* inputs that give any of the four lists; the caller passes as many mate-1
\* as mate-2 files; unpaired files hold two records, the others one
MixedInputs ==
    {Args("FASTQ", si, m, m, m12, fp, 0) :
        si \in MixList(2), m \in MixList(1), m12 \in MixList(1), fp \in BOOLEAN}
    \ {Args("FASTQ", <<>>, <<>>, <<>>, <<>>, fp, 0) : fp \in BOOLEAN}

InitC == InitWith(MixedInputs) /\ ReaderUnused /\ LocksUnused

SpecC == InitC /\ [][Next]_vars

----------------------------------------------------------------------------
(* Claims about PatternComposer::setupPatternComposer (SpecC) *)

\* the number of sources made for an input list
NumSources(list) == IF inp.fileParallel THEN Len(list) ELSE Min2(1, Len(list))

\* C33: the composer is Solo iff at least one interleaved (m12) input is
\* given, and then only the interleaved input is ever dispensed; otherwise it
\* is Dual, its mate-1 and mate-2 slot lists have equal length, the paired
\* slots come first and the unpaired slots, whose mate-2 entry is null, after
C33_SoloIffInterleaved ==
    /\ solo <=> Len(inp.m12) > 0
    /\ solo =>
          /\ Len(srca_) = NumSources(inp.m12)
          /\ \A i \in 1..Len(srca_) :
                srca_[i].infiles_ = SourceLists(inp.m12, inp.fileParallel)[i]
          /\ \A e \in emitted : e.a.src[1] = "ab" /\ e.b = NoRec
          /\ \A r \in DOMAIN ndisp : ndisp[r] > 0 => r.src[1] = "ab"
    /\ ~solo =>
          /\ Len(srca_) = Len(srcb_)
          /\ Len(srca_) = NumSources(inp.m1) + NumSources(inp.si)
          /\ \A i \in 1..Len(srca_) :
                IF i <= NumSources(inp.m1)
                THEN /\ srca_[i].infiles_ = SourceLists(inp.m1, inp.fileParallel)[i]
                     /\ i <= Len(srcb_) => 
                           /\ srcb_[i] # NullSource
                           /\ srcb_[i].infiles_ = SourceLists(inp.m2, inp.fileParallel)[i]
                ELSE /\ srca_[i].infiles_ =
                           SourceLists(inp.si, inp.fileParallel)[i - NumSources(inp.m1)]
                     /\ i <= Len(srcb_) => srcb_[i] = NullSource
          /\ \A e \in emitted :
                (e.b = NoRec) <=> (e.a.src[2] > NumSources(inp.m1))

\* interleaved, paired and unpaired lists given together: the composer is
\* Solo and every thread has been told that the input is exhausted
C33_Witness ==
    /\ Len(inp.m12) = 2 /\ Len(inp.si) > 0 /\ Len(inp.m1) > 0
    /\ inp.fileParallel
    /\ solo
    /\ \A t \in Threads : th[t].pc = "done"
    /\ Cardinality(emitted) = 2

----------------------------------------------------------------------------
(* The worker threads and the locks they take: the mutex of a source, the  *)
(* mutex of the composer, the mutex of the OutputQueue (SpecD)             *)

\* no source
NoSource == <<"none", 0>>

\* a worker: pc is where it is in its loop (nextReadPair, beginRead, the
\* alignment, finishRead), left the reads of its batch that it has still to
\* report, in_ the source whose nextBatchImpl it executes
NewWorker == [pc |-> "read", left |-> 0, in_ |-> NoSource]

\* a finishRead whose flush takes the lock again
FinishReadGetLockAgain == TRUE

\* the getLock argument of the flush that finishRead calls: the caller holds
\* the lock already
FinishReadGetLock == FALSE

\* OutputQueue::flush(force, getLock) can go on: with getLock it takes mutex_m
FlushEnter(getLock, m) == getLock => CanLock(m)

\* the composer that setupPatternComposer builds from mixed input lists, the
\* mutexes free, a queue with reorder on, every worker about to call
\* nextReadPair
InitD ==
    /\ inp \in MixedInputs
    /\ max_buf_ \in 1..MaxBuf
    /\ LET c == setupPatternComposer(inp)
       IN /\ solo = c.solo
          /\ srca_ = c.srca_
          /\ srcb_ = c.srcb_
    /\ cur_ = 0
    /\ mutex_m = 0
    /\ th = [t \in Threads |-> IdleThread]
    /\ fatal = "none"
    /\ ndisp = [r \in UNION {AllRecords(s) : s \in Sources} |-> 0]
    /\ emitted = {}
    /\ smx = [id \in SourceIds |-> 0]
    /\ oq_first = 0
    /\ oq = OutputQueueInit(TRUE, 0) @@ [mutex_m |-> 0]
    /\ oq_st = <<>>
    /\ oq_by = <<>>
    /\ oq_reg = <<>>
    /\ oq_op = "new"
    /\ wk = [t \in Threads |-> NewWorker]
    /\ wk_cnt = 0
    /\ ReaderUnused
    /\ ParserUnused

\* nextReadPair with an exhausted buffer: the composer's nextBatch is entered
WorkerNextBatch(t) ==
    /\ wk[t].pc = "read"
    /\ Call(t)
    /\ wk' = [wk EXCEPT ![t].pc = "batch"]
    /\ UNCHANGED <<qvars, lvars, wk_cnt>>

\* the composer has no slot left: nextReadPair returns (false, true)
WorkerExhausted(t) ==
    /\ Exhausted(t)
    /\ UNCHANGED <<qvars, lvars, wvars>>

\* CFilePatternSource::nextBatch with lock = true: the mutex of the source is
\* taken and nextBatchImpl entered
WorkerSourceLock(t) ==
    /\ SourceLock(t)
    /\ wk' = [wk EXCEPT ![t].in_ = srca_[th[t].cur + 1].id]
    /\ UNCHANGED <<qvars, wk_cnt>>

\* nextBatchImpl of the source of a Solo slot returns and its mutex is released
WorkerSoloRead(t) ==
    /\ SoloRead(t)
    /\ SourceUnlock(t)
    /\ wk' = [wk EXCEPT ![t].in_ = NoSource]
    /\ UNCHANGED <<qvars, wk_cnt>>

\* nextBatchImpl of the source of an unpaired slot returns and its mutex is
\* released
WorkerUnpairedRead(t) ==
    /\ UnpairedRead(t)
    /\ SourceUnlock(t)
    /\ wk' = [wk EXCEPT ![t].in_ = NoSource]
    /\ UNCHANGED <<qvars, wk_cnt>>

\* paired slot: the mutex of the composer is taken and nextBatch(pt, true,
\* false) of the mate-1 source entered
WorkerPairedLock(t) ==
    /\ PairedLock(t)
    /\ wk' = [wk EXCEPT ![t].in_ = srca_[th[t].cur + 1].id]
    /\ UNCHANGED <<qvars, lvars, wk_cnt>>

\* the mate-1 source returns and nextBatch(pt, false, false) of the mate-2
\* source is entered
WorkerPairedReadA(t) ==
    /\ PairedReadA(t)
    /\ wk' = [wk EXCEPT ![t].in_ = IF th'[t].pc = "readB" THEN srcb_[th[t].cur + 1].id
                                   ELSE NoSource]
    /\ UNCHANGED <<qvars, lvars, wk_cnt>>

\* the mate-2 source returns and the mutex of the composer is released
WorkerPairedReadB(t) ==
    /\ PairedReadB(t)
    /\ wk' = [wk EXCEPT ![t].in_ = NoSource]
    /\ UNCHANGED <<qvars, lvars, wk_cnt>>

\* the cursor of the composer is advanced under the mutex of the composer
WorkerAdvance(t) ==
    /\ Advance(t)
    /\ UNCHANGED <<qvars, lvars, wvars>>

\* the worker has a read to report: it has just been handed a batch, or it
\* has reads left of its batch
HasRead(t) ==
    \/ wk[t].pc = "batch" /\ th[t].pc = "idle"
    \/ wk[t].pc = "begin"

\* OutputQueue::beginRead: ThreadSafe t(mutex_m)
WorkerBeginRead(t) ==
    /\ fatal = "none"
    /\ HasRead(t)
    /\ CanLock(oq.mutex_m)
    /\ oq' = [oq EXCEPT !.mutex_m = t]
    /\ wk' = [wk EXCEPT ![t].pc = "inBegin",
                        ![t].left = IF wk[t].pc = "batch" THEN th[t].resa.n ELSE @]
    /\ UNCHANGED <<oq_first, oq_st, oq_by, oq_reg, oq_op, cvars, lvars, wk_cnt>>

\* beginRead returns and the mutex of the queue is released; the read is
\* aligned
WorkerBeginDone(t) ==
    /\ fatal = "none"
    /\ wk[t].pc = "inBegin"
    /\ oq' = [oq EXCEPT !.mutex_m = IF @ = t THEN 0 ELSE @]
    /\ wk' = [wk EXCEPT ![t].pc = "finish"]
    /\ UNCHANGED <<oq_first, oq_st, oq_by, oq_reg, oq_op, cvars, lvars, wk_cnt>>

\* OutputQueue::finishRead: ThreadSafe t(mutex_m), the record is counted
WorkerFinishRead(t) ==
    /\ fatal = "none"
    /\ wk[t].pc = "finish"
    /\ CanLock(oq.mutex_m)
    /\ oq' = [oq EXCEPT !.mutex_m = t, !.perThreadCounter_[t] = @ + 1]
    /\ wk' = [wk EXCEPT ![t].pc = "inFinish"]
    /\ UNCHANGED <<oq_first, oq_st, oq_by, oq_reg, oq_op, cvars, lvars, wk_cnt>>

\* finishRead with perThreadBufSize_ records accumulated calls flush(false,
\* false)
WorkerFlush(t) ==
    /\ fatal = "none"
    /\ wk[t].pc = "inFinish"
    /\ oq.perThreadCounter_[t] >= PerThreadBufSize
    /\ FlushEnter(FinishReadGetLock, oq.mutex_m)
    /\ oq' = [oq EXCEPT !.perThreadCounter_[t] = 0]
    /\ wk' = [wk EXCEPT ![t].pc = "inFlush"]
    /\ UNCHANGED <<oq_first, oq_st, oq_by, oq_reg, oq_op, cvars, lvars, wk_cnt>>

\* finishRead returns and the mutex of the queue is released
WorkerFinishDone(t) ==
    /\ fatal = "none"
    /\ \/ wk[t].pc = "inFlush"
       \/ wk[t].pc = "inFinish" /\ oq.perThreadCounter_[t] < PerThreadBufSize
    /\ oq' = [oq EXCEPT !.mutex_m = IF @ = t THEN 0 ELSE @]
    /\ wk' = [wk EXCEPT ![t].pc = IF wk[t].left > 1 THEN "begin" ELSE "read",
                        ![t].left = @ - 1]
    /\ UNCHANGED <<oq_first, oq_st, oq_by, oq_reg, oq_op, cvars, lvars, wk_cnt>>

\* a step of worker t
WorkerStep(t) ==
    \/ WorkerNextBatch(t)
    \/ WorkerExhausted(t)
    \/ WorkerSourceLock(t)
    \/ WorkerSoloRead(t)
    \/ WorkerUnpairedRead(t)
    \/ WorkerPairedLock(t)
    \/ WorkerPairedReadA(t)
    \/ WorkerPairedReadB(t)
    \/ WorkerAdvance(t)
    \/ WorkerBeginRead(t)
    \/ WorkerBeginDone(t)
    \/ WorkerFinishRead(t)
    \/ WorkerFlush(t)
    \/ WorkerFinishDone(t)

NextD ==
    \/ \E t \in Threads : WorkerNextBatch(t) /\ UNCHANGED <<rvars, pvars>>
    \/ \E t \in Threads : WorkerExhausted(t) /\ UNCHANGED <<rvars, pvars>>
    \/ \E t \in Threads : WorkerSourceLock(t) /\ UNCHANGED <<rvars, pvars>>
    \/ \E t \in Threads : WorkerSoloRead(t) /\ UNCHANGED <<rvars, pvars>>
    \/ \E t \in Threads : WorkerUnpairedRead(t) /\ UNCHANGED <<rvars, pvars>>
    \/ \E t \in Threads : WorkerPairedLock(t) /\ UNCHANGED <<rvars, pvars>>
    \/ \E t \in Threads : WorkerPairedReadA(t) /\ UNCHANGED <<rvars, pvars>>
    \/ \E t \in Threads : WorkerPairedReadB(t) /\ UNCHANGED <<rvars, pvars>>
    \/ \E t \in Threads : WorkerAdvance(t) /\ UNCHANGED <<rvars, pvars>>
    \/ \E t \in Threads : WorkerBeginRead(t) /\ UNCHANGED <<rvars, pvars>>
    \/ \E t \in Threads : WorkerBeginDone(t) /\ UNCHANGED <<rvars, pvars>>
    \/ \E t \in Threads : WorkerFinishRead(t) /\ UNCHANGED <<rvars, pvars>>
    \/ \E t \in Threads : WorkerFlush(t) /\ UNCHANGED <<rvars, pvars>>
    \/ \E t \in Threads : WorkerFinishDone(t) /\ UNCHANGED <<rvars, pvars>>

SpecD == InitD /\ [][NextD]_vars

----------------------------------------------------------------------------
(* Claims about the locks (SpecD) *)

\* the paired slots of a Dual composer
PairedSlots == {i \in 1..Len(srca_) : ~solo /\ srcb_[i] # NullSource}

\* the source with this id sits in a paired slot
InPairedSlot(id) == \E i \in PairedSlots : id \in {srca_[i].id, srcb_[i].id}

\* C35: at most one thread at a time executes nextBatchImpl on a given
\* source, in both topologies: the thread holds the mutex of the source, or,
\* for the sources of a paired slot of a Dual composer, the mutex of the
\* composer and not that of the source; and a source changes only in a step
\* of the thread that executes its nextBatchImpl
C35_OneThreadInNextBatchImpl ==
    /\ [](\A t \in Threads :
            wk[t].in_ # NoSource =>
               /\ \A u \in Threads \ {t} : wk[u].in_ # wk[t].in_
               /\ IF InPairedSlot(wk[t].in_)
                  THEN mutex_m = t /\ smx[wk[t].in_] = 0
                  ELSE smx[wk[t].in_] = t)
    /\ [][/\ \A i \in 1..Len(srca_) :
               srca_'[i] # srca_[i] =>
                  \E t \in Threads : wk[t].in_ = srca_[i].id /\ th'[t] # th[t]
          /\ \A i \in 1..Len(srcb_) :
               srcb_'[i] # srcb_[i] =>
                  \E t \in Threads : wk[t].in_ = srcb_[i].id /\ th'[t] # th[t]]_vars

\* a thread executes nextBatchImpl of the mate-2 source of a paired slot
\* under the mutex of the composer while the other thread has entered
\* nextBatch for the same slot
C35_Witness ==
    /\ ~solo
    /\ \E t \in Threads : \E u \in Threads \ {t} :
          /\ th[t].pc = "readB"
          /\ wk[t].in_ = srcb_[th[t].cur + 1].id
          /\ mutex_m = t
          /\ th[u].pc = "top"
          /\ th[u].cur = th[t].cur

\* the number of locks that thread t holds
NumHeld(t) ==
    Cardinality({id \in DOMAIN smx : smx[id] = t})
    + (IF mutex_m = t THEN 1 ELSE 0) + (IF oq.mutex_m = t THEN 1 ELSE 0)

\* the thread is through: it was told that the input is exhausted
Finished(t) == th[t].pc = "done"

\* thread t waits for a mutex that is held: that of the source of its slot, of
\* the composer (for a paired slot or to advance the cursor), or of the queue
\* (in beginRead, in finishRead, or in a flush that takes the lock)
Blocked(t) ==
    \/ /\ TakesOwnLock(t)
       /\ smx[srca_[th[t].cur + 1].id] # t
       /\ ~CanLock(smx[srca_[th[t].cur + 1].id])
    \/ /\ th[t].pc = "top"
       /\ (th[t].cur + 1) \in PairedSlots
       /\ ~CanLock(mutex_m)
    \/ th[t].pc = "adv" /\ ~CanLock(mutex_m)
    \/ (HasRead(t) \/ wk[t].pc = "finish") /\ ~CanLock(oq.mutex_m)
    \/ /\ wk[t].pc = "inFinish"
       /\ oq.perThreadCounter_[t] >= PerThreadBufSize
       /\ ~FlushEnter(FinishReadGetLock, oq.mutex_m)

\* C36: no thread ever holds two of the locks (the mutex of a source, of the
\* composer, of the output queue) at the same time; a thread takes a lock
\* only when it holds none; the flush called from inside finishRead runs
\* under the lock that finishRead took and takes none; no reachable state of
\* the worker threads is a deadlock: while a thread is not through, some
\* thread that is not through does not wait for a mutex
C36_OneLockAtATimeNoDeadlock ==
    /\ \A t \in Threads :
          /\ NumHeld(t) <= 1
          /\ (th[t].pc = "adv" \/ HasRead(t) \/ wk[t].pc = "finish") => NumHeld(t) = 0
          /\ (th[t].pc = "top" /\ wk[t].in_ = NoSource) => NumHeld(t) = 0
          /\ wk[t].pc \in {"inFinish", "inFlush"} => (oq.mutex_m = t /\ NumHeld(t) = 1)
    /\ (fatal = "none" /\ \E t \in Threads : ~Finished(t)) =>
          \E t \in Threads : ~Finished(t) /\ ~Blocked(t)

\* a thread is in the flush that finishRead called, under the mutex of the
\* queue, while the other thread reads mate 2 under the mutex of the composer
C36_Witness ==
    \E t \in Threads : \E u \in Threads \ {t} :
       /\ wk[t].pc = "inFlush"
       /\ oq.mutex_m = t
       /\ th[u].pc = "readB"
       /\ mutex_m = u

----------------------------------------------------------------------------
(* The runs of Spec over mate files of equal record counts (SpecP) *)

\* a file of k records without a newline after its last line
FileNoNl(k) == [n |-> k, nl |-> FALSE, ok |-> TRUE]

\* a file of k records, with or without the last newline
EitherFile(k) == {File(k)} \cup (IF k > 0 THEN {FileNoNl(k)} ELSE {})

\* mate-1 and mate-2 lists of one or two files that hold the same number of
\* records file by file; the last newline of each file is there or not
SameCountInputs ==
    {Args(f, <<>>, <<a>>, <<b>>, <<>>, fp, 0) :
        f \in {"FASTA", "FASTQ"}, fp \in BOOLEAN,
        a \in UNION {EitherFile(k) : k \in 0..MaxRecs},
        b \in UNION {EitherFile(k) : k \in 0..MaxRecs}}
    \cup
    {Args(f, <<>>, <<a, File(1)>>, <<b, File(1)>>, <<>>, fp, 0) :
        f \in {"FASTA", "FASTQ"}, fp \in BOOLEAN,
        a \in UNION {EitherFile(k) : k \in 0..(MaxRecs - 1)},
        b \in UNION {EitherFile(k) : k \in 0..(MaxRecs - 1)}}

\* the inputs above of which the two mates of every slot have as many records
SameCount(in) == \A i \in 1..Len(in.m1) : in.m1[i].n = in.m2[i].n

InitP ==
    /\ InitWith({in \in SameCountInputs : SameCount(in)} \cup MixedInputs)
    /\ ReaderUnused
    /\ LocksUnused

SpecP == InitP /\ [][Next]_vars

----------------------------------------------------------------------------
(* Claims about the assertions of DualPatternComposer::nextBatch (SpecP) *)

\* C37: in a paired slot whose two mate inputs hold the same number of
\* records, outside the locked section both sources have the same
\* readCount(), and a thread whose two counts are equal and not zero has
\* equal exhausted flags (assert_eq(resa.first, resb.first))
C37_AssertionsHold ==
    /\ \A i \in 1..Len(srca_) :
          (~solo /\ srcb_[i] # NullSource
           /\ \A t \in Threads : th[t].pc \notin {"readA", "readB"}) =>
             srca_[i].readCnt_ = srcb_[i].readCnt_
    /\ \A t \in Threads :
          (th[t].resb.n # 0 /\ th[t].resa.n = th[t].resb.n) =>
             th[t].resa.done = th[t].resb.done

============================================================================
